---- MODULE Spec2Model ----
(***************************************************************************)
(* A model of the sudokutools solve-and-analyze engine: the Sudoku grid    *)
(* (sudoku.py), the backtracking solver (solve.py), the exact-cover solver *)
(* (dlx.py), the uniqueness test (analyze.py) and the human-technique      *)
(* pipeline (solvers.py).                                                  *)
(*                                                                         *)
(* A Sudoku object is a record [width, height, num, cand]: num is the      *)
(* private __numbers table and cand the private __candidates table, both   *)
(* functions over the cells <<row, col>>.  Python lists are sequences,     *)
(* Python sets are sets.  Where Python iterates a set of small integers    *)
(* the model iterates in ascending order.                                  *)
(*                                                                         *)
(* Where list identity and Python indexing matter (copy, the accessors),   *)
(* the objects are followed as the lists they are made of, in heap.        *)
(* The specifications: Spec and AnalyzeSpec (a caller writing cells and    *)
(* calling the solvers and checks), SolveSpec (solve, turn by turn),       *)
(* RectangleSpec and NakedSpec (the examples of the tests), GeometrySpec   *)
(* (coordinates of every box size), ObjectSpec (copy and accessors),       *)
(* DecodeSpec (decode without a size), ReadOnlySpec (the library called    *)
(* on objects), StreamSpec (solutions taken one by one), DlxSpec and       *)
(* BacktrackSpec (the two searches, one loop turn per step), TupleSpec     *)
(* (the naked tuple finders on grids with candidates set by the caller),   *)
(* UniqueSpec (solve on grids with one completion) and UniquenessSpec      *)
(* (the two uniqueness checks side by side).                               *)
(***************************************************************************)
EXTENDS Integers, Sequences, FiniteSets, TLC

VARIABLES
    sudoku,     \* the Sudoku object held by the caller
    writes,     \* how many __setitem__ calls the caller has made
    out,        \* what the last library call returned
    solving,    \* the frame of a running solve(sudoku): its locals
    heap        \* the Python lists behind Sudoku objects, where the model
                \* follows the objects themselves

vars == <<sudoku, writes, out, solving, heap>>

-----------------------------------------------------------------------------
(* Bounds of the model *)

\* the caller writes at most this many cells after constructing the grid
MaxWrites == 2

\* the box sizes (width, height) the model builds grids of
Sizes == {<<2, 1>>, <<1, 2>>, <<2, 2>>}

\* the caller makes at most this many accessor calls on its Sudoku objects
\* (counted in writes)
MaxCalls == 2

\* decode is called with the fields of grids up to MaxSide x MaxSide
MaxSide == 20

\* the geometry is checked for every box size up to MaxBox x MaxBox
MaxBox == 4

\* the box sizes of the 6x6 examples
RectangleSizes == {<<2, 3>>, <<3, 2>>}

\* the model follows a run of solve for at most this many turns of its for
\* loop (one turn runs one class of SOLVERS)
MaxTurns == 60

-----------------------------------------------------------------------------
(* Small helpers for Python lists and sets *)

Range(seq) == {seq[i] : i \in DOMAIN seq}

Min(S) == CHOOSE x \in S : \A y \in S : x <= y

Max(S) == CHOOSE x \in S : \A y \in S : x >= y

\* list.remove(x): drop the first occurrence of x
RemoveFirst(seq, x) ==
    LET i == Min({k \in DOMAIN seq : seq[k] = x})
    IN  [k \in 1..(Len(seq) - 1) |-> IF k < i THEN seq[k] ELSE seq[k + 1]]

\* the elements of a set of integers as an ascending list
RECURSIVE Ascending(_)
Ascending(S) ==
    IF S = {} THEN <<>> ELSE <<Min(S)>> \o Ascending(S \ {Min(S)})

\* reversed(list)
Reversed(seq) == [k \in 1..Len(seq) |-> seq[Len(seq) + 1 - k]]

-----------------------------------------------------------------------------
(* sudoku.py: class Sudoku *)

\* len(self.indices)
Side(s) == s.width * s.height

\* self.indices = tuple(range(width * height))
indices(s) == 0..(Side(s) - 1)

\* self.numbers = tuple(range(1, width * height + 1))
numbers(s) == 1..Side(s)

Cells(s) == indices(s) \X indices(s)

\* Sudoku.__init__(size=(width, height)): all numbers 0, all candidates empty
Sudoku(size) ==
    LET n == size[1] * size[2]
    IN  [width      |-> size[1],
         height     |-> size[2],
         num        |-> [rc \in (0..(n - 1)) \X (0..(n - 1)) |-> 0],
         cand       |-> [rc \in (0..(n - 1)) \X (0..(n - 1)) |-> {}]]

\* Sudoku.__iter__: product(self.indices, repeat=2), row-major
Iter(s) ==
    [k \in 1..(Side(s) * Side(s)) |-> <<(k - 1) \div Side(s), (k - 1) % Side(s)>>]

\* Sudoku.empty(): the coordinates of the empty fields, row-major
empty(s) ==
    LET IsEmpty(rc) == s.num[rc] = 0 IN SelectSeq(Iter(s), IsEmpty)

\* Sudoku.filled()
filled(s) ==
    LET IsFilled(rc) == s.num[rc] # 0 IN SelectSeq(Iter(s), IsFilled)

\* Sudoku.__setitem__ / set_number
setitem(s, rc, value) == [s EXCEPT !.num[rc] = value]

\* Sudoku.set_candidates: stores frozenset(value)
set_candidates(s, rc, value) == [s EXCEPT !.cand[rc] = value]

\* Sudoku.remove_candidates: self.__candidates[row][col] -= set(value)
remove_candidates(s, rc, value) == [s EXCEPT !.cand[rc] = @ \ value]

\* Sudoku.copy: a new Sudoku of the same size with the numbers copied and,
\* if asked for, the candidates
copy(s, include_candidates) ==
    LET fresh == Sudoku(<<s.width, s.height>>)
        withnum == [fresh EXCEPT !.num = [rc \in Cells(s) |-> s.num[rc]]]
    IN  IF include_candidates
        THEN [withnum EXCEPT !.cand = [rc \in Cells(s) |-> s.cand[rc]]]
        ELSE withnum

\* Sudoku.__eq__: equal in the number of every field
SudokuEq(s, t) == \A rc \in Cells(s) : s.num[rc] = t.num[rc]

\* Sudoku.diff: coordinates whose number differs in other, row-major
diff(s, other) ==
    LET Differs(rc) == s.num[rc] # other.num[rc] IN SelectSeq(Iter(s), Differs)

\* box_at taking the row's offset within the box by the box's width
box_at_width_only(s, row, col) == (col \div s.width) + row - (row % s.width)

\* Sudoku.box_at
box_at(s, row, col) == (col \div s.width) + row - (row % s.height)

\* Sudoku.column_of
column_of(s, row, col, include) ==
    LET Keep(rc) == include \/ rc[1] # row
    IN  SelectSeq([k \in 1..Side(s) |-> <<k - 1, col>>], Keep)

\* Sudoku.row_of
row_of(s, row, col, include) ==
    LET Keep(rc) == include \/ rc[2] # col
    IN  SelectSeq([k \in 1..Side(s) |-> <<row, k - 1>>], Keep)

\* box_of with the box's width and height exchanged
box_of_transposed(s, row, col, include) ==
    LET grid_x == col - (col % s.height)
        grid_y == row - (row % s.width)
        coords == [k \in 1..Side(s) |->
                     <<grid_y + ((k - 1) \div s.height),
                       grid_x + ((k - 1) % s.height)>>]
    IN  IF include THEN coords ELSE RemoveFirst(coords, <<row, col>>)

\* Sudoku.box_of
box_of(s, row, col, include) ==
    LET grid_x == col - (col % s.width)
        grid_y == row - (row % s.height)
        coords == [k \in 1..Side(s) |->
                     <<grid_y + ((k - 1) \div s.width),
                       grid_x + ((k - 1) % s.width)>>]
    IN  IF include THEN coords ELSE RemoveFirst(coords, <<row, col>>)

\* Sudoku._quad_without_row_and_column_of
quad_without_row_and_column_of(s, row, col) ==
    LET Keep(rc) == rc[1] # row /\ rc[2] # col
    IN  SelectSeq(box_of(s, row, col, TRUE), Keep)

\* surrounding_of without the removal of the second (row, col)
surrounding_of_keeps_both(s, row, col, include) ==
    row_of(s, row, col, include)
        \o column_of(s, row, col, include)
        \o quad_without_row_and_column_of(s, row, col)

\* Sudoku.surrounding_of
surrounding_of(s, row, col, include) ==
    LET coords == row_of(s, row, col, include)
                  \o column_of(s, row, col, include)
                  \o quad_without_row_and_column_of(s, row, col)
    IN  IF include THEN RemoveFirst(coords, <<row, col>>) ELSE coords

-----------------------------------------------------------------------------
(* sudoku.py: the Sudoku object as the Python lists it is made of.  A list  *)
(* is an entry of heap.lists and is referred to by its position there; a    *)
(* Sudoku object holds the list of its rows of numbers and the list of its  *)
(* rows of candidates.                                                      *)

\* no object has been created
NoHeap == [lists |-> <<>>, grids |-> <<>>]

\* list[i] in Python: the position of index i in a list of length len, with
\* negative indices counting from the end; 0 stands for IndexError
PyIndex(len, i) ==
    IF 0 <= i /\ i < len THEN i + 1
    ELSE IF -len <= i /\ i < 0 THEN len + i + 1
    ELSE 0

\* Sudoku.__init__: [[0] * n for _ in indices] and [[frozenset()] * n for _
\* in indices] make n new row lists each, and a new list of the rows
Sudoku_init(h, size) ==
    LET n == size[1] * size[2]
        base == Len(h.lists)
    IN  [lists |-> h.lists
                   \o [i \in 1..n |-> [k \in 1..n |-> 0]]
                   \o <<[i \in 1..n |-> base + i]>>
                   \o [i \in 1..n |-> [k \in 1..n |-> {}]]
                   \o <<[i \in 1..n |-> base + n + 1 + i]>>,
         grids |-> Append(h.grids, [width |-> size[1], height |-> size[2],
                                    numbers |-> base + n + 1,
                                    candidates |-> base + 2 * n + 2])]

\* table[row][col] for a list of row lists: the row list and the position the
\* expression refers to, or the IndexError of the first index out of range
Lookup(h, table, row, col) ==
    LET rows == h.lists[table]
        i == PyIndex(Len(rows), row)
        j == PyIndex(Len(h.lists[rows[i]]), col)
    IN  IF i = 0 THEN [error |-> "IndexError", list |-> 0, at |-> 0]
        ELSE IF j = 0 THEN [error |-> "IndexError", list |-> 0, at |-> 0]
        ELSE [error |-> "", list |-> rows[i], at |-> j]

\* what a call returns or raises, and the heap after it
Raised(h, error) == [error |-> error, value |-> 0, heap |-> h]

Returned(h, value) == [error |-> "", value |-> value, heap |-> h]

\* Sudoku.__getitem__: self.__numbers[row][col]
Sudoku_getitem(h, g, row, col) ==
    LET at == Lookup(h, h.grids[g].numbers, row, col)
    IN  IF at.error # "" THEN Raised(h, at.error)
        ELSE Returned(h, h.lists[at.list][at.at])

\* Sudoku.__setitem__: self.__numbers[row][col] = value
Sudoku_setitem(h, g, row, col, value) ==
    LET at == Lookup(h, h.grids[g].numbers, row, col)
    IN  IF at.error # "" THEN Raised(h, at.error)
        ELSE Returned([h EXCEPT !.lists[at.list][at.at] = value], 0)

\* Sudoku.get_candidates: self.__candidates[row][col]
Sudoku_get_candidates(h, g, row, col) ==
    LET at == Lookup(h, h.grids[g].candidates, row, col)
    IN  IF at.error # "" THEN Raised(h, at.error)
        ELSE Returned(h, h.lists[at.list][at.at])

\* Sudoku.set_candidates: self.__candidates[row][col] = frozenset(value)
Sudoku_set_candidates(h, g, row, col, value) ==
    LET at == Lookup(h, h.grids[g].candidates, row, col)
    IN  IF at.error # "" THEN Raised(h, at.error)
        ELSE Returned([h EXCEPT !.lists[at.list][at.at] = value], 0)

\* Sudoku.remove_candidates: self.__candidates[row][col] -= set(value); a
\* frozenset is never changed, the list gets the new set
Sudoku_remove_candidates(h, g, row, col, value) ==
    LET at == Lookup(h, h.grids[g].candidates, row, col)
    IN  IF at.error # "" THEN Raised(h, at.error)
        ELSE Returned([h EXCEPT !.lists[at.list][at.at] = @ \ value], 0)

\* Sudoku.copy, the loop "sudoku[row, col] = self[row, col]" from its k-th
\* coordinate on; an IndexError would end the loop
RECURSIVE copy_numbers(_, _, _, _, _)
copy_numbers(h, self, new, coords, k) ==
    IF k > Len(coords) THEN h
    ELSE LET row == coords[k][1]
             col == coords[k][2]
             value == Sudoku_getitem(h, self, row, col).value
             written == Sudoku_setitem(h, new, row, col, value)
         IN  IF written.error # "" THEN h
             ELSE copy_numbers(written.heap, self, new, coords, k + 1)

\* Sudoku.copy, the loop over the candidates
RECURSIVE copy_candidates(_, _, _, _, _)
copy_candidates(h, self, new, coords, k) ==
    IF k > Len(coords) THEN h
    ELSE LET row == coords[k][1]
             col == coords[k][2]
             c == Sudoku_get_candidates(h, self, row, col).value
             written == Sudoku_set_candidates(h, new, row, col, c)
         IN  IF written.error # "" THEN h
             ELSE copy_candidates(written.heap, self, new, coords, k + 1)

\* a copy that is a second object made of the lists of the first
Sudoku_copy_same_lists(h, g, include_candidates) ==
    [h EXCEPT !.grids = Append(@, h.grids[g])]

\* Sudoku.copy(include_candidates): the heap with the new object added
Sudoku_copy(h, g, include_candidates) ==
    LET self == h.grids[g]
        created == Sudoku_init(h, <<self.width, self.height>>)
        new == Len(created.grids)
        numbered == copy_numbers(created, g, new, Iter(self), 1)
    IN  IF include_candidates
        THEN copy_candidates(numbered, g, new, Iter(self), 1)
        ELSE numbered

\* the numbers and candidates of an object, read field by field
View(h, g) ==
    LET self == h.grids[g]
    IN  [width  |-> self.width,
         height |-> self.height,
         num    |-> [rc \in Cells(self) |-> Sudoku_getitem(h, g, rc[1], rc[2]).value],
         cand   |-> [rc \in Cells(self) |->
                        Sudoku_get_candidates(h, g, rc[1], rc[2]).value]]

Views(h) == [g \in DOMAIN h.grids |-> View(h, g)]

-----------------------------------------------------------------------------
(* coordinates.py *)

\* the_box(box, width, height): the coordinates of the fields of a box, or
\* the ValueError for a box number outside 0 <= box < width * height
the_box(box, width, height) ==
    LET x == (box % height) * width
        y == (box \div height) * height
    IN  IF ~(0 <= box /\ box < width * height)
        THEN [error |-> "ValueError", coords |-> <<>>]
        ELSE [error |-> "",
              coords |-> [k \in 1..(width * height) |->
                            <<y + ((k - 1) \div width), x + ((k - 1) % width)>>]]

-----------------------------------------------------------------------------
(* solve.py: candidates and the backtracking solver *)

\* calc_candidates looking at the row of the field only
calc_candidates_row_only(s, row, col) ==
    numbers(s) \ {s.num[ij] : ij \in Range(row_of(s, row, col, FALSE))}

\* calc_candidates: set(NUMBERS) minus the numbers of the surrounding fields
calc_candidates(s, row, col) ==
    numbers(s) \ {s.num[ij] : ij \in Range(surrounding_of(s, row, col, FALSE))}

\* init_candidates: set_candidates(row, col, calc_candidates(...)) for every
\* field; calc_candidates reads numbers only, so the order does not matter
init_candidates(s) ==
    [s EXCEPT !.cand = [rc \in Cells(s) |-> calc_candidates(s, rc[1], rc[2])]]

\* sorted(list(sudoku.empty()), key=len(candidates))[0]: the sort is stable,
\* so this is the first empty field, row-major, with the fewest candidates
FirstSortedEmpty(s) ==
    LET e == empty(s)
        least == Min({Cardinality(s.cand[e[k]]) : k \in DOMAIN e})
        k0 == Min({k \in DOMAIN e : Cardinality(s.cand[e[k]]) = least})
    IN  e[k0]

\* the fields _do_bruteforce saves before it removes a candidate
SavedFields(s, rc) == {rc} \cup Range(surrounding_of(s, rc[1], rc[2], FALSE))

\* the first lines of the loop body of _do_bruteforce: the candidate is
\* written into the field and removed from the surrounding fields
place_candidate(s, rc, candidate) ==
    LET placed == setitem(s, rc, candidate)
    IN  [placed EXCEPT !.cand =
            [ij \in Cells(s) |->
                IF ij \in SavedFields(s, rc) \ {rc}
                THEN placed.cand[ij] \ {candidate}
                ELSE placed.cand[ij]]]

\* _do_bruteforce: solve in place; [ok |-> success, sudoku |-> the grid after]
RECURSIVE do_bruteforce(_, _)
RECURSIVE try_candidates(_, _, _, _, _)
do_bruteforce(s, reverse) ==
    IF Len(empty(s)) = 0
    THEN [ok |-> TRUE, sudoku |-> s]
    ELSE LET rc == FirstSortedEmpty(s)
             asc == Ascending(s.cand[rc])
             next_candidates == IF reverse THEN Reversed(asc) ELSE asc
         IN  try_candidates(s, rc, next_candidates, 1, reverse)

\* the loop with "sudoku[row, col] = 0" as the only thing done on failure:
\* the saved candidates are not written back
try_candidates_numbers_only(s, rc, next_candidates, k, reverse) ==
    IF k > Len(next_candidates)
    THEN [ok |-> FALSE, sudoku |-> s]
    ELSE LET candidate == next_candidates[k]
             r == do_bruteforce(place_candidate(s, rc, candidate), reverse)
         IN  IF r.ok
             THEN r
             ELSE try_candidates([r.sudoku EXCEPT !.num[rc] = 0],
                                 rc, next_candidates, k + 1, reverse)

\* the loop "for candidate in next_candidates", from its k-th element on
try_candidates(s, rc, next_candidates, k, reverse) ==
    IF k > Len(next_candidates)
    THEN [ok |-> FALSE, sudoku |-> s]
    ELSE LET candidate == next_candidates[k]
             \* read after "sudoku[row, col] = candidate", which leaves the
             \* candidates as they are
             saved_candidates == [ij \in SavedFields(s, rc) |-> s.cand[ij]]
             removed == place_candidate(s, rc, candidate)
             r == do_bruteforce(removed, reverse)
         IN  IF r.ok
             THEN r
             ELSE LET reverted == [r.sudoku EXCEPT
                                     !.cand = [ij \in Cells(s) |->
                                         IF ij \in DOMAIN saved_candidates
                                         THEN saved_candidates[ij]
                                         ELSE r.sudoku.cand[ij]],
                                     !.num[rc] = 0]
                  IN  try_candidates(reverted, rc, next_candidates, k + 1, reverse)

\* bruteforce: copy, init_candidates, _do_bruteforce; the solution or None.
\* The result is given as the list of grids a consumer gets from it:
\* <<solution>>, or <<>> for None.
bruteforce(s, reverse) ==
    LET solution == init_candidates(copy(s, FALSE))
        r == do_bruteforce(solution, reverse)
    IN  IF r.ok THEN <<r.sudoku>> ELSE <<>>

\* solve.is_unique: the solution bruteforce finds with the candidates in
\* ascending order against the one it finds with them reversed
solve_is_unique(s) ==
    LET solution1 == bruteforce(s, FALSE)
        solution2 == bruteforce(s, TRUE)
    IN  IF Len(solution1) = 0 THEN FALSE
        ELSE IF Len(solution2) = 0 THEN FALSE
        ELSE SudokuEq(solution1[1], solution2[1])

-----------------------------------------------------------------------------
(* dlx.py: Algorithm X over the exact-cover matrix *)

\* the constraint (column) keys, the list X of do_dlx
DlxColumns(s) ==
    {<<fam, a, b>> : fam \in {"rc"}, a \in indices(s), b \in indices(s)}
    \cup {<<fam, a, n>> : fam \in {"rn", "cn", "bn"}, a \in indices(s), n \in numbers(s)}

\* the row ids (r, c, n) of the matrix
DlxRows(s) == indices(s) \X indices(s) \X numbers(s)

\* Y[(r, c, n)]: the four columns the row covers; b is the box number
\* (r // R) * R + (c // C) with R = height, C = width
DlxY(s, i) ==
    LET b == (i[1] \div s.height) * s.height + (i[2] \div s.width)
    IN  << <<"rc", i[1], i[2]>>, <<"rn", i[1], i[3]>>,
           <<"cn", i[2], i[3]>>, <<"bn", b, i[3]>> >>

\* exact_cover: X[j] = the set of rows that cover column j
exact_cover(s) ==
    [j \in DlxColumns(s) |-> {i \in DlxRows(s) : j \in Range(DlxY(s, i))}]

\* exact_cover depends on the size alone: the matrix is built once per size
ExactCoverOf == [size \in Sizes \cup RectangleSizes |-> exact_cover(Sudoku(size))]

\* The position of a column key in the list X is built from; min(X, key=...)
\* returns the first minimal key in the dict's iteration order, which the
\* model takes to be this construction order.
FamilyRank(fam) ==
    CASE fam = "rc" -> 0 [] fam = "rn" -> 1 [] fam = "cn" -> 2 [] fam = "bn" -> 3

ColumnRank(s, j) ==
    (FamilyRank(j[1]) * (Side(s) + 1) + j[2]) * (Side(s) + 1) + j[3]

\* the order in which the model iterates a set of row ids
RowRank(s, i) == (i[1] * Side(s) + i[2]) * (Side(s) + 1) + i[3]

RECURSIVE RowList(_, _)
RowList(s, S) ==
    IF S = {} THEN <<>>
    ELSE LET i == CHOOSE x \in S : \A y \in S : RowRank(s, x) <= RowRank(s, y)
         IN  <<i>> \o RowList(s, S \ {i})

\* One turn of select's loop "for j in Y[r]": remove every row of X[j] from
\* the other columns it covers, then pop X[j].  keyerror is set where Python
\* raises KeyError: X[j] or X[k] is gone, or X[k] does not hold the row.
SelectColumn(s, st, j) ==
    IF st.keyerror \/ j \notin DOMAIN st.X
    THEN [st EXCEPT !.keyerror = TRUE]
    ELSE LET X == st.X
             hit == UNION {{<<i, k>> : k \in Range(DlxY(s, i)) \ {j}} : i \in X[j]}
             touched == {ik[2] : ik \in hit}
         IN  IF \E ik \in hit : ik[2] \notin DOMAIN X \/ ik[1] \notin X[ik[2]]
             THEN [st EXCEPT !.keyerror = TRUE]
             ELSE [keyerror |-> FALSE,
                   X    |-> [k \in DOMAIN X \ {j} |->
                                IF k \in touched
                                THEN X[k] \ {ik[1] : ik \in {h \in hit : h[2] = k}}
                                ELSE X[k]],
                   cols |-> Append(st.cols, X[j])]

\* select(X, Y, r): returns cols, the popped columns of r
select(s, X, r) ==
    LET Y == DlxY(s, r)
        st0 == [keyerror |-> FALSE, X |-> X, cols |-> <<>>]
    IN  SelectColumn(s, SelectColumn(s, SelectColumn(s,
            SelectColumn(s, st0, Y[1]), Y[2]), Y[3]), Y[4])

\* One turn of deselect's loop "for j in reversed(Y[r])": X[j] = cols.pop(),
\* then add every row of X[j] back to the other columns it covers.
DeselectColumn(s, st, j) ==
    LET back == st.cols[Len(st.cols)]
        X1 == [k \in DOMAIN st.X \cup {j} |-> IF k = j THEN back ELSE st.X[k]]
        hit == UNION {{<<i, k>> : k \in Range(DlxY(s, i)) \ {j}} : i \in back}
        touched == {ik[2] : ik \in hit}
    IN  IF st.keyerror \/ \E k \in touched : k \notin DOMAIN X1
        THEN [st EXCEPT !.keyerror = TRUE]
        ELSE [keyerror |-> FALSE,
              X    |-> [k \in DOMAIN X1 |->
                           IF k \in touched
                           THEN X1[k] \cup {ik[1] : ik \in {h \in hit : h[2] = k}}
                           ELSE X1[k]],
              cols |-> SubSeq(st.cols, 1, Len(st.cols) - 1)]

\* deselect going through Y[r] in the order of select, not in reverse
deselect_in_select_order(s, X, r, cols) ==
    LET Y == DlxY(s, r)
        st0 == [keyerror |-> FALSE, X |-> X, cols |-> cols]
    IN  DeselectColumn(s, DeselectColumn(s, DeselectColumn(s,
            DeselectColumn(s, st0, Y[1]), Y[2]), Y[3]), Y[4])

\* deselect(X, Y, r, cols)
deselect(s, X, r, cols) ==
    LET Y == DlxY(s, r)
        st0 == [keyerror |-> FALSE, X |-> X, cols |-> cols]
    IN  DeselectColumn(s, DeselectColumn(s, DeselectColumn(s,
            DeselectColumn(s, st0, Y[4]), Y[3]), Y[2]), Y[1])

\* c = min(X, key=lambda c: len(X[c]))
MinColumn(s, X) ==
    LET least == Min({Cardinality(X[c]) : c \in DOMAIN X})
        cands == {c \in DOMAIN X : Cardinality(X[c]) = least}
    IN  CHOOSE c \in cands : \A d \in cands : ColumnRank(s, c) <= ColumnRank(s, d)

\* dlx.solve(X, Y, solution): the list of solutions it yields (each the set of
\* the rows in solution at that moment) and the X it leaves behind.
RECURSIVE dlx_solve(_, _, _)
RECURSIVE dlx_rows(_, _, _, _, _)
\* dlx.solve with the test "if not X" inverted
dlx_solve_inverted(s, X, solution) ==
    IF DOMAIN X # {}
    THEN [X |-> X, yields |-> <<solution>>]
    ELSE [X |-> X, yields |-> <<>>]

dlx_solve(s, X, solution) ==
    IF DOMAIN X = {}
    THEN [X |-> X, yields |-> <<solution>>]
    ELSE LET c == MinColumn(s, X)
         IN  dlx_rows(s, X, solution, RowList(s, X[c]), 1)

\* the loop "for r in list(X[c])", from its k-th row on
dlx_rows(s, X, solution, rows, k) ==
    IF k > Len(rows)
    THEN [X |-> X, yields |-> <<>>]
    ELSE LET r == rows[k]
             sel == select(s, X, r)
             sub == dlx_solve(s, sel.X, solution \cup {r})
             des == deselect(s, sub.X, r, sel.cols)
             rest == dlx_rows(s, des.X, solution, rows, k + 1)
         IN  [yields |-> sub.yields \o rest.yields, X |-> rest.X]

\* the loop of do_dlx that selects every filled field, from the k-th on;
\* keyerror: the KeyError that do_dlx catches (the sudoku has conflicts)
RECURSIVE SelectFilled(_, _, _, _)
SelectFilled(s, st, cells, k) ==
    IF k > Len(cells) \/ st.keyerror
    THEN st
    ELSE LET rc == cells[k]
             sel == select(s, st.X, <<rc[1], rc[2], s.num[rc]>>)
         IN  SelectFilled(s, sel, cells, k + 1)

\* writes the triples of one solution into the grid
WriteSolution(s, solution) ==
    [s EXCEPT !.num = [rc \in Cells(s) |->
        IF \E i \in solution : i[1] = rc[1] /\ i[2] = rc[2]
        THEN (CHOOSE i \in solution : i[1] = rc[1] /\ i[2] = rc[2])[3]
        ELSE s.num[rc]]]

\* do_dlx(sudoku): works in place and yields the same object after writing
\* each solution into it; the list holds the grid as it is at each yield.
RECURSIVE DlxYields(_, _, _)
DlxYields(s, sols, k) ==
    IF k > Len(sols) THEN <<>>
    ELSE LET written == WriteSolution(s, sols[k])
         IN  <<written>> \o DlxYields(written, sols, k + 1)

do_dlx(s) ==
    LET st == SelectFilled(s, [keyerror |-> FALSE, X |-> ExactCoverOf[<<s.width, s.height>>],
                               cols |-> <<>>],
                           filled(s), 1)
    IN  IF st.keyerror THEN <<>>
        ELSE DlxYields(s, dlx_solve(s, st.X, {}).yields, 1)

\* solve.dlx(sudoku): do_dlx on a copy, each solution handed out as a fresh copy
dlx(s) ==
    LET ys == do_dlx(copy(s, FALSE))
    IN  [k \in 1..Len(ys) |-> copy(ys[k], FALSE)]

-----------------------------------------------------------------------------
(* analyze.py *)

\* is_unique without its second next(solutions)
is_unique_first_only(s) == Len(dlx(s)) >= 1

\* analyze.is_unique: next(solutions) twice; true iff exactly one solution
is_unique(s) ==
    LET solutions == dlx(s)
    IN  IF Len(solutions) = 0 THEN FALSE
        ELSE IF Len(solutions) >= 2 THEN FALSE
        ELSE TRUE

\* the conflicts find_conflicts yields for one coordinate: one triple for
\* every surrounding field that holds the same number, in list order
conflicts_at(s, rc) ==
    LET value == s.num[rc]
        Same(ij) == s.num[ij] = value
        hits == SelectSeq(surrounding_of(s, rc[1], rc[2], FALSE), Same)
    IN  IF value = 0 THEN <<>>
        ELSE [k \in 1..Len(hits) |-> <<rc, hits[k], value>>]

\* the loop "for row, col in coords" of find_conflicts, from its k-th item on
RECURSIVE conflicts_from(_, _, _)
conflicts_from(s, coords, k) ==
    IF k > Len(coords) THEN <<>>
    ELSE conflicts_at(s, coords[k]) \o conflicts_from(s, coords, k + 1)

\* find_conflicts looking at the first surrounding field only
find_conflicts_first_neighbour(s, coords) ==
    LET all == IF Len(coords) = 0 THEN Iter(s) ELSE coords
        First(rc) == LET c == conflicts_at(s, rc)
                     IN  IF Len(c) = 0 THEN <<>> ELSE <<c[1]>>
        RECURSIVE From(_)
        From(k) == IF k > Len(all) THEN <<>> ELSE First(all[k]) \o From(k + 1)
    IN  From(1)

\* analyze.find_conflicts(sudoku, *coords): the list of what it yields;
\* without coords every coordinate of the grid is searched
find_conflicts(s, coords) ==
    conflicts_from(s, IF Len(coords) = 0 THEN Iter(s) ELSE coords, 1)

\* is_solved without the search for conflicts
is_solved_no_empty_only(s) == Len(empty(s)) = 0

\* analyze.is_solved: not list(sudoku.empty()) and not list(find_conflicts(sudoku))
is_solved(s) == Len(empty(s)) = 0 /\ Len(find_conflicts(s, <<>>)) = 0

-----------------------------------------------------------------------------
(* solvers.py: solve steps and how they are applied *)

\* SolveStep.__init__: clues, affected and values are stored as sorted
\* tuples; their items are distinct, so the model holds them as sets.
\* cls is the name of the step's class.
SolveStep(cls, clues, affected, values) ==
    [cls |-> cls, clues |-> clues, affected |-> affected, values |-> values]

\* _SingleFieldStep.__init__(row, col, value)
SingleFieldStep(cls, rc, value) == SolveStep(cls, {rc}, {rc}, {value})

\* The state of one run of cls.find: the grid the generator reads, the steps
\* yielded so far and the clues it remembers (yielded_coords).
StartFind(s) == [sudoku |-> s, steps |-> <<>>, yielded |-> {}]

\* CalculateCandidates.build_actions and apply
CalculateCandidates_apply(step, s) ==
    set_candidates(s, CHOOSE rc \in step.clues : TRUE, step.values)

\* the loop of _SingleFieldStep.build_actions over surrounding_of, from the
\* k-th field on; the actions only touch fields the loop has passed
RECURSIVE RemoveFromSurrounding(_, _, _, _)
RemoveFromSurrounding(s, fields, value, k) ==
    IF k > Len(fields) THEN s
    ELSE IF value \in s.cand[fields[k]]
         THEN RemoveFromSurrounding(remove_candidates(s, fields[k], {value}),
                                    fields, value, k + 1)
         ELSE RemoveFromSurrounding(s, fields, value, k + 1)

\* _SingleFieldStep.build_actions and apply: set the number, set the
\* candidates to {value}, remove value from the surrounding fields
SingleFieldStep_apply(step, s) ==
    LET rc == CHOOSE x \in step.affected : TRUE
        value == CHOOSE v \in step.values : TRUE
        placed == set_candidates(setitem(s, rc, value), rc, {value})
    IN  RemoveFromSurrounding(placed, surrounding_of(s, rc[1], rc[2], FALSE), value, 1)

\* NakedTuple.build_actions working on the clues instead of the affected
NakedTuple_apply_to_clues(step, s) ==
    [s EXCEPT !.cand = [rc \in Cells(s) |->
        IF rc \in step.clues
        THEN s.cand[rc] \ (step.values \cap s.cand[rc])
        ELSE s.cand[rc]]]

\* NakedTuple.build_actions and apply: remove values & candidates
NakedTuple_apply(step, s) ==
    [s EXCEPT !.cand = [rc \in Cells(s) |->
        IF rc \in step.affected
        THEN s.cand[rc] \ (step.values \cap s.cand[rc])
        ELSE s.cand[rc]]]

\* HiddenTuple.build_actions removing the values of the tuple instead of
\* the other candidates
HiddenTuple_apply_removes_values(step, s) ==
    [s EXCEPT !.cand = [rc \in Cells(s) |->
        IF rc \in step.affected
        THEN s.cand[rc] \ step.values
        ELSE s.cand[rc]]]

\* HiddenTuple.build_actions and apply: remove candidates - values
HiddenTuple_apply(step, s) ==
    [s EXCEPT !.cand = [rc \in Cells(s) |->
        IF rc \in step.affected
        THEN s.cand[rc] \ (s.cand[rc] \ step.values)
        ELSE s.cand[rc]]]

\* PointingTuple.build_actions, BasicFish.build_actions and apply
RemoveValues_apply(step, s) ==
    [s EXCEPT !.cand = [rc \in Cells(s) |->
        IF rc \in step.affected THEN s.cand[rc] \ step.values ELSE s.cand[rc]]]

\* SolveStep.apply, by the class of the step
apply(step, s) ==
    CASE step.cls = "CalculateCandidates" -> CalculateCandidates_apply(step, s)
      [] step.cls \in {"NakedSingle", "HiddenSingle", "Bruteforce"}
            -> SingleFieldStep_apply(step, s)
      [] step.cls \in {"NakedPair", "NakedTriple", "NakedQuad", "NakedQuint"}
            -> NakedTuple_apply(step, s)
      [] step.cls \in {"HiddenPair", "HiddenTriple", "HiddenQuad", "HiddenQuint"}
            -> HiddenTuple_apply(step, s)
      [] OTHER -> RemoveValues_apply(step, s)

\* "yield step" inside cls.find.  When the caller applies each step as it
\* receives it (live, as solve and apply_all do), the generator goes on with
\* the changed grid; when the caller only collects the steps, the grid stays.
Yield(g, step, live) ==
    [g EXCEPT !.steps = Append(@, step),
              !.sudoku = IF live THEN apply(step, @) ELSE @]

-----------------------------------------------------------------------------
(* solvers.py: the finders.  Each find is a generator; the model runs its    *)
(* loops from the k-th item on, carrying the state g of the run.             *)

\* CalculateCandidates.find: one step for every field without candidates
RECURSIVE CalculateCandidates_loop(_, _, _)
CalculateCandidates_loop(g, k, live) ==
    IF k > Len(Iter(g.sudoku)) THEN g
    ELSE LET rc == Iter(g.sudoku)[k]
         IN  IF g.sudoku.cand[rc] # {}
             THEN CalculateCandidates_loop(g, k + 1, live)
             ELSE CalculateCandidates_loop(
                      Yield(g, SolveStep("CalculateCandidates", {rc}, {rc},
                                         calc_candidates(g.sudoku, rc[1], rc[2])),
                            live),
                      k + 1, live)

CalculateCandidates_find(s, live) == CalculateCandidates_loop(StartFind(s), 1, live)

\* NakedSingle.find: sudoku.empty() is itself a generator, so a field counts
\* as empty if it is empty when the loop reaches it
RECURSIVE NakedSingle_loop(_, _, _)
NakedSingle_loop(g, k, live) ==
    IF k > Len(Iter(g.sudoku)) THEN g
    ELSE LET rc == Iter(g.sudoku)[k]
             candidates == g.sudoku.cand[rc]
         IN  IF g.sudoku.num[rc] = 0 /\ Cardinality(candidates) = 1
             THEN NakedSingle_loop(
                      Yield(g, SingleFieldStep("NakedSingle", rc,
                                               CHOOSE v \in candidates : TRUE), live),
                      k + 1, live)
             ELSE NakedSingle_loop(g, k + 1, live)

NakedSingle_find(s, live) == NakedSingle_loop(StartFind(s), 1, live)

\* f(row, col, include) for f one of sudoku.column_of, row_of, box_of
HouseOf(s, f, row, col, include) ==
    CASE f = "column_of" -> column_of(s, row, col, include)
      [] f = "row_of" -> row_of(s, row, col, include)
      [] f = "box_of" -> box_of(s, row, col, include)

\* HiddenSingle.find, inner part: set(numbers) minus the candidates of the
\* other fields of the house f
HiddenCandidates(s, f, rc) ==
    numbers(s) \ UNION {s.cand[ij] : ij \in Range(HouseOf(s, f, rc[1], rc[2], FALSE))}

\* HiddenSingle.find: for each empty field the first of column, row and box
\* that leaves a value; only the first value is yielded, since the field is
\* in yielded_coords afterwards.  The field's own candidates are not read.
RECURSIVE HiddenSingle_loop(_, _, _)
HiddenSingle_loop(g, k, live) ==
    IF k > Len(Iter(g.sudoku)) THEN g
    ELSE LET rc == Iter(g.sudoku)[k]
             s == g.sudoku
             incol == HiddenCandidates(s, "column_of", rc)
             inrow == HiddenCandidates(s, "row_of", rc)
             inbox == HiddenCandidates(s, "box_of", rc)
             candidates == IF incol # {} THEN incol
                           ELSE IF inrow # {} THEN inrow ELSE inbox
         IN  IF s.num[rc] = 0 /\ candidates # {}
             THEN HiddenSingle_loop(
                      Yield(g, SingleFieldStep("HiddenSingle", rc, Min(candidates)), live),
                      k + 1, live)
             ELSE HiddenSingle_loop(g, k + 1, live)

HiddenSingle_find(s, live) == HiddenSingle_loop(StartFind(s), 1, live)

\* Bruteforce.find, the loop over sudoku.diff(solution)
RECURSIVE Bruteforce_loop(_, _, _, _)
Bruteforce_loop(g, solution, k, live) ==
    IF k > Len(Iter(g.sudoku)) THEN g
    ELSE LET rc == Iter(g.sudoku)[k]
         IN  IF g.sudoku.num[rc] # solution.num[rc]
             THEN Bruteforce_loop(
                      Yield(g, SingleFieldStep("Bruteforce", rc, solution.num[rc]), live),
                      solution, k + 1, live)
             ELSE Bruteforce_loop(g, solution, k + 1, live)

\* Bruteforce.find: next(bruteforce(sudoku)), nothing on StopIteration
Bruteforce_find(s, live) ==
    LET solutions == bruteforce(s, FALSE)
    IN  IF Len(solutions) = 0 THEN StartFind(s)
        ELSE Bruteforce_loop(StartFind(s), solutions[1], 1, live)

\* itertools.combinations(seq, n): the n-item sublists, in index order
RECURSIVE combinations(_, _)
combinations(seq, n) ==
    IF n = 0 THEN << <<>> >>
    ELSE IF Len(seq) < n THEN <<>>
    ELSE LET with == combinations(Tail(seq), n - 1)
         IN  [k \in 1..Len(with) |-> <<Head(seq)>> \o with[k]]
             \o combinations(Tail(seq), n)

\* a list without the later repeats of its items
RECURSIVE Distinct(_, _)
Distinct(seq, k) ==
    IF k > Len(seq) THEN <<>>
    ELSE (IF \E j \in 1..(k - 1) : seq[j] = seq[k] THEN <<>> ELSE <<seq[k]>>)
         \o Distinct(seq, k + 1)

\* clist of NakedTuple.find and HiddenTuple.find: func(row, col) of every
\* empty field, each house once
clist(s, func) ==
    LET e == empty(s)
    IN  Distinct([k \in 1..Len(e) |-> HouseOf(s, func, e[k][1], e[k][2], TRUE)], 1)

\* NakedTuple.__find_at, the loop over combinations(n_candidates, n), with
\* the test of find on yielded_coords
RECURSIVE NakedTuple_combos(_, _, _, _, _, _, _)
NakedTuple_combos(g, cls, n, coords, combos, k, live) ==
    IF k > Len(combos) THEN g
    ELSE LET fields == Range(combos[k])
             s == g.sudoku
             all_candidates == UNION {s.cand[rc] : rc \in fields}
             affected == {rc \in Range(coords) :
                             rc \notin fields /\ all_candidates \cap s.cand[rc] # {}}
         IN  IF Cardinality(all_candidates) <= n /\ affected # {}
                /\ fields \notin g.yielded
             THEN NakedTuple_combos(
                      [Yield(g, SolveStep(cls, fields, affected, all_candidates), live)
                          EXCEPT !.yielded = @ \cup {fields}],
                      cls, n, coords, combos, k + 1, live)
             ELSE NakedTuple_combos(g, cls, n, coords, combos, k + 1, live)

\* NakedTuple.__find_at with "0 < len(candidates) <= n": naked singles are
\* not ignored
NakedTuple_find_at_with_singles(g, cls, n, coords, live) ==
    LET HasFew(rc) == /\ 0 < Cardinality(g.sudoku.cand[rc])
                      /\ Cardinality(g.sudoku.cand[rc]) <= n
        n_candidates == SelectSeq(coords, HasFew)
    IN  NakedTuple_combos(g, cls, n, coords, combinations(n_candidates, n), 1, live)

\* NakedTuple.__find_at: n_candidates is read when the house is entered
NakedTuple_find_at(g, cls, n, coords, live) ==
    LET HasFew(rc) == /\ 1 < Cardinality(g.sudoku.cand[rc])
                      /\ Cardinality(g.sudoku.cand[rc]) <= n
        n_candidates == SelectSeq(coords, HasFew)
    IN  NakedTuple_combos(g, cls, n, coords, combinations(n_candidates, n), 1, live)

RECURSIVE NakedTuple_houses(_, _, _, _, _, _)
NakedTuple_houses(g, cls, n, houses, k, live) ==
    IF k > Len(houses) THEN g
    ELSE NakedTuple_houses(NakedTuple_find_at(g, cls, n, houses[k], live),
                           cls, n, houses, k + 1, live)

\* NakedTuple.find: rows, then columns, then boxes
NakedTuple_find(cls, n, s, live) ==
    LET g1 == NakedTuple_houses(StartFind(s), cls, n, clist(s, "row_of"), 1, live)
        g2 == NakedTuple_houses(g1, cls, n, clist(g1.sudoku, "column_of"), 1, live)
    IN  NakedTuple_houses(g2, cls, n, clist(g2.sudoku, "box_of"), 1, live)

\* HiddenTuple.__find_at, the loop "for (row, col) in max_set": it runs once
\* per field of max_set and reads the candidates anew every time
RECURSIVE HiddenTuple_each(_, _, _, _, _, _, _)
HiddenTuple_each(g, cls, coords, max_set, nums, times, live) ==
    IF times = 0 THEN g
    ELSE LET affected == {rc \in max_set : g.sudoku.cand[rc] \ nums # {}}
         IN  IF affected # {}
             THEN HiddenTuple_each(
                      Yield(g, SolveStep(cls, Range(coords), affected, nums), live),
                      cls, coords, max_set, nums, times - 1, live)
             ELSE HiddenTuple_each(g, cls, coords, max_set, nums, times - 1, live)

\* HiddenTuple.__find_at, the loop over combinations(n_times, n)
RECURSIVE HiddenTuple_combos(_, _, _, _, _, _, _, _)
HiddenTuple_combos(g, cls, n, coords, cand_coords, combos, k, live) ==
    IF k > Len(combos) THEN g
    ELSE LET nums == Range(combos[k])
             max_set == UNION {cand_coords[num] : num \in nums}
         IN  IF Cardinality(max_set) <= n
             THEN HiddenTuple_combos(
                      HiddenTuple_each(g, cls, coords, max_set, nums,
                                       Cardinality(max_set), live),
                      cls, n, coords, cand_coords, combos, k + 1, live)
             ELSE HiddenTuple_combos(g, cls, n, coords, cand_coords, combos, k + 1, live)

\* HiddenTuple.__find_at: cand_coords and n_times are built when the house
\* is entered
HiddenTuple_find_at(g, cls, n, coords, live) ==
    LET s == g.sudoku
        cand_coords == [c \in numbers(s) |-> {rc \in Range(coords) : c \in s.cand[rc]}]
        Few(c) == /\ 1 < Cardinality(cand_coords[c])
                  /\ Cardinality(cand_coords[c]) <= n
        n_times == SelectSeq(Ascending(numbers(s)), Few)
    IN  HiddenTuple_combos(g, cls, n, coords, cand_coords,
                           combinations(n_times, n), 1, live)

RECURSIVE HiddenTuple_houses(_, _, _, _, _, _)
HiddenTuple_houses(g, cls, n, houses, k, live) ==
    IF k > Len(houses) THEN g
    ELSE HiddenTuple_houses(HiddenTuple_find_at(g, cls, n, houses[k], live),
                            cls, n, houses, k + 1, live)

\* HiddenTuple.find: rows, then columns, then boxes; no yielded_coords test
HiddenTuple_find(cls, n, s, live) ==
    LET g1 == HiddenTuple_houses(StartFind(s), cls, n, clist(s, "row_of"), 1, live)
        g2 == HiddenTuple_houses(g1, cls, n, clist(g1.sudoku, "column_of"), 1, live)
    IN  HiddenTuple_houses(g2, cls, n, clist(g2.sudoku, "box_of"), 1, live)

\* the fields of a list that hold candidate among their candidates
WithCandidate(s, coords, candidate) ==
    LET Has(rc) == candidate \in s.cand[rc] IN SelectSeq(coords, Has)

\* PointingTuple.__find_in_box, the loop over sudoku.numbers from candidate on
RECURSIVE PointingTuple_in_box(_, _, _, _, _, _)
PointingTuple_in_box(g, cls, n, box_coords, candidate, live) ==
    IF candidate > Side(g.sudoku) THEN g
    ELSE LET s == g.sudoku
             clues == WithCandidate(s, box_coords, candidate)
             line == IF Cardinality({rc[1] : rc \in Range(clues)}) = 1
                     THEN row_of(s, clues[1][1], clues[1][2], TRUE)
                     ELSE IF Cardinality({rc[2] : rc \in Range(clues)}) = 1
                     THEN column_of(s, clues[1][1], clues[1][2], TRUE)
                     ELSE <<>>
             affected == {rc \in Range(line) :
                             rc \notin Range(clues) /\ candidate \in s.cand[rc]}
         IN  IF Len(clues) = n /\ affected # {}
             THEN PointingTuple_in_box(
                      Yield(g, SolveStep(cls, Range(clues), affected, {candidate}), live),
                      cls, n, box_coords, candidate + 1, live)
             ELSE PointingTuple_in_box(g, cls, n, box_coords, candidate + 1, live)

\* PointingTuple.find, first loop: every box, entered at its first field
RECURSIVE PointingTuple_boxes(_, _, _, _, _)
PointingTuple_boxes(g, cls, n, box, live) ==
    IF box > Side(g.sudoku) - 1 THEN g
    ELSE LET s == g.sudoku
             row == (box \div s.height) * s.height
             col == (box % s.height) * s.width
         IN  PointingTuple_boxes(
                 PointingTuple_in_box(g, cls, n, box_of(s, row, col, TRUE), 1, live),
                 cls, n, box + 1, live)

\* PointingTuple.__find_in_row_and_column, the loop over sudoku.numbers for
\* one line (coords = f(x, x))
RECURSIVE PointingTuple_in_line(_, _, _, _, _, _)
PointingTuple_in_line(g, cls, n, coords, candidate, live) ==
    IF candidate > Side(g.sudoku) THEN g
    ELSE LET s == g.sudoku
             clues == WithCandidate(s, coords, candidate)
             onebox == Cardinality({box_at(s, rc[1], rc[2]) : rc \in Range(clues)}) = 1
             affected == IF Len(clues) = n /\ onebox
                         THEN {rc \in Range(box_of(s, clues[1][1], clues[1][2], TRUE)) :
                                  rc \notin Range(clues) /\ candidate \in s.cand[rc]}
                         ELSE {}
         IN  IF affected # {}
             THEN PointingTuple_in_line(
                      Yield(g, SolveStep(cls, Range(clues), affected, {candidate}), live),
                      cls, n, coords, candidate + 1, live)
             ELSE PointingTuple_in_line(g, cls, n, coords, candidate + 1, live)

\* PointingTuple.find, second loop: row x, then column x, for every index x
RECURSIVE PointingTuple_lines(_, _, _, _, _)
PointingTuple_lines(g, cls, n, x, live) ==
    IF x > Side(g.sudoku) - 1 THEN g
    ELSE LET s == g.sudoku
             inrow == PointingTuple_in_line(g, cls, n, row_of(s, x, x, TRUE), 1, live)
         IN  PointingTuple_lines(
                 PointingTuple_in_line(inrow, cls, n, column_of(s, x, x, TRUE), 1, live),
                 cls, n, x + 1, live)

PointingTuple_find(cls, n, s, live) ==
    PointingTuple_lines(PointingTuple_boxes(StartFind(s), cls, n, 0, live),
                        cls, n, 0, live)

\* BasicFish.__find_for_candidate, the loop over combinations(valid_indices, n).
\* offset 0: the base lines are rows and the cover lines columns; offset 1:
\* the other way round.
RECURSIVE BasicFish_combos(_, _, _, _, _, _, _, _, _)
BasicFish_combos(g, cls, n, candidate, offset, fields, combos, k, live) ==
    IF k > Len(combos) THEN g
    ELSE LET s == g.sudoku
             base_fields == UNION {Range(fields[i]) : i \in Range(combos[k])}
             other_offset == ((offset + 1) % 2) + 1
             other_counts == [val \in {coord[other_offset] : coord \in base_fields} |->
                                 Cardinality({coord \in base_fields :
                                                 coord[other_offset] = val})]
             covered == UNION {Range(IF offset = 0
                                     THEN column_of(s, val, val, TRUE)
                                     ELSE row_of(s, val, val, TRUE)) :
                               val \in DOMAIN other_counts}
             affected == {rc \in covered :
                             rc \notin base_fields /\ candidate \in s.cand[rc]}
         IN  IF /\ Min({other_counts[val] : val \in DOMAIN other_counts}) >= 2
                /\ Cardinality(DOMAIN other_counts) <= n
                /\ affected # {}
             THEN BasicFish_combos(
                      Yield(g, SolveStep(cls, base_fields, affected, {candidate}), live),
                      cls, n, candidate, offset, fields, combos, k + 1, live)
             ELSE BasicFish_combos(g, cls, n, candidate, offset, fields, combos, k + 1, live)

\* BasicFish.__find_for_candidate: fields and valid_indices are built when
\* the candidate is entered
BasicFish_find_for_candidate(g, cls, n, candidate, offset, live) ==
    LET s == g.sudoku
        fields == [i \in indices(s) |->
                      WithCandidate(s, IF offset = 0 THEN row_of(s, i, i, TRUE)
                                       ELSE column_of(s, i, i, TRUE), candidate)]
        Valid(i) == 2 <= Len(fields[i]) /\ Len(fields[i]) <= n
        valid_indices == SelectSeq([k \in 1..Side(s) |-> k - 1], Valid)
    IN  BasicFish_combos(g, cls, n, candidate, offset, fields,
                         combinations(valid_indices, n), 1, live)

\* BasicFish.find: product(variants, sudoku.numbers), from the k-th pair on
RECURSIVE BasicFish_product(_, _, _, _, _)
BasicFish_product(g, cls, n, k, live) ==
    IF k > 2 * Side(g.sudoku) THEN g
    ELSE BasicFish_product(
             BasicFish_find_for_candidate(g, cls, n, ((k - 1) % Side(g.sudoku)) + 1,
                                          (k - 1) \div Side(g.sudoku), live),
             cls, n, k + 1, live)

BasicFish_find(cls, n, s, live) == BasicFish_product(StartFind(s), cls, n, 1, live)

-----------------------------------------------------------------------------
(* solvers.py and analyze.py: the pipeline *)

\* SOLVERS: the classes in the order solve uses them, with the n of the
\* tuple and fish classes
SOLVERS ==
    << [cls |-> "CalculateCandidates", n |-> 0],
       [cls |-> "NakedSingle", n |-> 1],
       [cls |-> "HiddenSingle", n |-> 1],
       [cls |-> "NakedPair", n |-> 2],
       [cls |-> "HiddenPair", n |-> 2],
       [cls |-> "NakedTriple", n |-> 3],
       [cls |-> "HiddenTriple", n |-> 3],
       [cls |-> "NakedQuad", n |-> 4],
       [cls |-> "HiddenQuad", n |-> 4],
       [cls |-> "NakedQuint", n |-> 5],
       [cls |-> "HiddenQuint", n |-> 5],
       [cls |-> "PointingPair", n |-> 2],
       [cls |-> "PointingTriple", n |-> 3],
       [cls |-> "XWing", n |-> 2],
       [cls |-> "Swordfish", n |-> 3],
       [cls |-> "Jellyfish", n |-> 4],
       [cls |-> "Bruteforce", n |-> 0] >>

\* cls.find(sudoku) for a class of SOLVERS
find(solver, s, live) ==
    CASE solver.cls = "CalculateCandidates" -> CalculateCandidates_find(s, live)
      [] solver.cls = "NakedSingle" -> NakedSingle_find(s, live)
      [] solver.cls = "HiddenSingle" -> HiddenSingle_find(s, live)
      [] solver.cls \in {"NakedPair", "NakedTriple", "NakedQuad", "NakedQuint"}
            -> NakedTuple_find(solver.cls, solver.n, s, live)
      [] solver.cls \in {"HiddenPair", "HiddenTriple", "HiddenQuad", "HiddenQuint"}
            -> HiddenTuple_find(solver.cls, solver.n, s, live)
      [] solver.cls \in {"PointingPair", "PointingTriple"}
            -> PointingTuple_find(solver.cls, solver.n, s, live)
      [] solver.cls \in {"XWing", "Swordfish", "Jellyfish"}
            -> BasicFish_find(solver.cls, solver.n, s, live)
      [] solver.cls = "Bruteforce" -> Bruteforce_find(s, live)

\* RATINGS with NakedSingle rated like CalculateCandidates
RATINGS_naked_single_unrated ==
    "CalculateCandidates" :> 0 @@ "NakedSingle" :> 0 @@ "HiddenSingle" :> 1 @@
    "NakedPair" :> 2 @@ "HiddenPair" :> 2 @@ "NakedTriple" :> 2 @@
    "HiddenTriple" :> 2 @@ "NakedQuad" :> 3 @@ "HiddenQuad" :> 3 @@
    "NakedQuint" :> 3 @@ "HiddenQuint" :> 3 @@ "PointingPair" :> 4 @@
    "PointingTriple" :> 4 @@ "XWing" :> 5 @@ "Swordfish" :> 6 @@
    "Jellyfish" :> 7 @@ "Bruteforce" :> 10

\* analyze.RATINGS
RATINGS ==
    "CalculateCandidates" :> 0 @@ "NakedSingle" :> 1 @@ "HiddenSingle" :> 1 @@
    "NakedPair" :> 2 @@ "HiddenPair" :> 2 @@ "NakedTriple" :> 2 @@
    "HiddenTriple" :> 2 @@ "NakedQuad" :> 3 @@ "HiddenQuad" :> 3 @@
    "NakedQuint" :> 3 @@ "HiddenQuint" :> 3 @@ "PointingPair" :> 4 @@
    "PointingTriple" :> 4 @@ "XWing" :> 5 @@ "Swordfish" :> 6 @@
    "Jellyfish" :> 7 @@ "Bruteforce" :> 10

\* init_candidates(sudoku, filled_only=True): every filled field gets its
\* number as its only candidate, the empty fields are left as they are
init_candidates_filled_only(s) ==
    [s EXCEPT !.cand = [rc \in Cells(s) |->
        IF s.num[rc] # 0 THEN {s.num[rc]} ELSE s.cand[rc]]]

\* no solve is running
NotSolving ==
    [pc |-> "idle", solution |-> <<>>, cls |-> 1, turns |-> 0, rating |-> 0,
     score |-> 0, reported |-> FALSE,
     last |-> [cls |-> "", count |-> 0, changed |-> FALSE]]

\* solve, up to its loop: solution = sudoku.copy(), then
\* init_candidates(solution, filled_only=True).  cls is the place of the for
\* loop in SOLVERS and turns counts the turns of that loop so far (the code
\* keeps no such count).  rating, score and reported are what rate and score
\* compute from the steps that solve reports to them: the maximum and the
\* sum of the RATINGS of the steps, and whether the list of steps is non-empty.
solve_enter(s) ==
    [NotSolving EXCEPT !.pc = "loop",
                       !.solution = init_candidates_filled_only(copy(s, FALSE))]

\* "if count > 0: break" and the while loop: the for loop starts again at
\* the first class after a class that found something, else it goes on with
\* the next class (after the last class, solve returns)
next_class(sv, count) ==
    IF count > 0 THEN 1
    ELSE IF sv.cls = Len(SOLVERS) THEN sv.cls ELSE sv.cls + 1

\* the for loop going on with the next class whatever count is
next_class_no_restart(sv, count) ==
    IF sv.cls = Len(SOLVERS) THEN (IF count > 0 THEN 1 ELSE sv.cls)
    ELSE sv.cls + 1

\* the frame of solve after cls.find(solution) has run to its end with g
\* (every step reported and applied); on_count tells what the for loop does
\* with count > 0
after_find(sv, solver, g, on_count) ==
    [pc       |-> IF Len(g.steps) = 0 /\ sv.cls = Len(SOLVERS) THEN "done" ELSE "loop",
     solution |-> g.sudoku,
     turns    |-> sv.turns + 1,
     cls      |-> IF on_count = "break" THEN next_class(sv, Len(g.steps))
                  ELSE next_class_no_restart(sv, Len(g.steps)),
     rating   |-> IF Len(g.steps) > 0 THEN Max({sv.rating, RATINGS[solver.cls]})
                  ELSE sv.rating,
     score    |-> sv.score + Len(g.steps) * RATINGS[solver.cls],
     reported |-> sv.reported \/ Len(g.steps) > 0,
     last     |-> [cls |-> solver.cls, count |-> Len(g.steps),
                   changed |-> g.sudoku # sv.solution]]

\* solve without the "if count > 0: break": the for loop always goes on with
\* the next class
solve_turn_no_restart(sv) ==
    after_find(sv, SOLVERS[sv.cls], find(SOLVERS[sv.cls], sv.solution, TRUE),
               "no restart")

\* One turn of "for cls in SOLVERS": every step of cls.find(solution) is
\* reported and applied as it is yielded.  count > 0 breaks the for loop and
\* the while loop starts it again; when the last class yields nothing, solve
\* returns.
solve_turn(sv) ==
    after_find(sv, SOLVERS[sv.cls], find(SOLVERS[sv.cls], sv.solution, TRUE),
               "break")

-----------------------------------------------------------------------------
(* The library called on objects: which object each routine works on.  The  *)
(* routines above are given the numbers and candidates of the object they   *)
(* work on, and what they leave behind is written into that object.         *)

\* the heap after a routine working in place on object g has left it with
\* the numbers and candidates of s, written from the k-th coordinate on
RECURSIVE Worked(_, _, _, _, _)
Worked(h, g, s, coords, k) ==
    IF k > Len(coords) THEN h
    ELSE LET row == coords[k][1]
             col == coords[k][2]
             numbered == Sudoku_setitem(h, g, row, col, s.num[coords[k]])
             written == Sudoku_set_candidates(numbered.heap, g, row, col,
                                              s.cand[coords[k]])
         IN  IF numbered.error # "" \/ written.error # "" THEN h
             ELSE Worked(written.heap, g, s, coords, k + 1)

\* cls.find(sudoku), run to its end without applying the steps: the
\* generator is handed the object itself
find_call(h, g, solver) ==
    LET s == View(h, g)
    IN  Worked(h, g, find(solver, s, FALSE).sudoku, Iter(s), 1)

\* bruteforce without "solution = sudoku.copy()": the search runs on the
\* object of the caller
bruteforce_call_in_place(h, g, reverse) ==
    LET s == View(h, g)
    IN  Worked(h, g, do_bruteforce(init_candidates(s), reverse).sudoku, Iter(s), 1)

\* bruteforce(sudoku, reverse): solution = sudoku.copy(), then
\* init_candidates and _do_bruteforce work on solution
bruteforce_call(h, g, reverse) ==
    LET copied == Sudoku_copy(h, g, FALSE)
        solution == Len(copied.grids)
        s == View(copied, solution)
    IN  Worked(copied, solution, do_bruteforce(init_candidates(s), reverse).sudoku,
               Iter(s), 1)

\* the yields of do_dlx handed out as fresh copies, from the k-th on: the
\* working object holds a solution when it is copied
RECURSIVE dlx_yields(_, _, _, _)
dlx_yields(h, working, ys, k) ==
    IF k > Len(ys) THEN h
    ELSE LET written == Worked(h, working, ys[k], Iter(ys[k]), 1)
         IN  dlx_yields(Sudoku_copy(written, working, FALSE), working, ys, k + 1)

\* solve.dlx(sudoku), of which the consumer takes at most the first take
\* solutions: do_dlx works in place on a copy
dlx_call(h, g, take) ==
    LET copied == Sudoku_copy(h, g, FALSE)
        working == Len(copied.grids)
        ys == do_dlx(View(copied, working))
    IN  dlx_yields(copied, working, SubSeq(ys, 1, Min({take, Len(ys)})), 1)

\* the loop of solve, until it returns or has made MaxTurns turns
RECURSIVE solve_loop(_)
solve_loop(sv) ==
    IF sv.pc # "loop" \/ sv.turns >= MaxTurns THEN sv
    ELSE solve_loop(solve_turn(sv))

\* solve(sudoku, report): solution = sudoku.copy(), and
\* init_candidates(filled_only) and the steps work on solution
solve_call(h, g) ==
    LET copied == Sudoku_copy(h, g, FALSE)
        solution == Len(copied.grids)
        s == View(copied, solution)
    IN  Worked(copied, solution, solve_loop(solve_enter(s)).solution, Iter(s), 1)

-----------------------------------------------------------------------------
(* The caller: builds a grid, writes cells, calls the library *)

\* the reading loop of Sudoku.decode: the items fill the grid row-major
decode(size, items) ==
    LET fresh == Sudoku(size)
    IN  [fresh EXCEPT !.num = [rc \in Cells(fresh) |->
                                  items[rc[1] * Side(fresh) + rc[2] + 1]]]

\* a solved 4x4 grid, and the same grid with six fields left empty
Solved4 == <<1,2,3,4, 3,4,1,2, 2,1,4,3, 4,3,2,1>>

Open4 == <<0,0,3,4, 3,4,0,2, 0,0,4,3, 4,3,2,0>>

InitialGrids ==
    {Sudoku(<<2, 1>>), Sudoku(<<1, 2>>),
     decode(<<2, 2>>, Solved4), decode(<<2, 2>>, Open4)}

NoOut == [op |-> "none", grids |-> <<>>, flag |-> FALSE]

Init ==
    /\ sudoku \in InitialGrids
    /\ writes = 0
    /\ out = NoOut
    /\ solving = NotSolving
    /\ heap = NoHeap

\* sudoku[row, col] = value
SetItem ==
    /\ writes < MaxWrites
    /\ \E rc \in Cells(sudoku) : \E value \in 0..Side(sudoku) :
          /\ value # sudoku.num[rc]
          /\ sudoku' = setitem(sudoku, rc, value)
    /\ writes' = writes + 1
    /\ out' = NoOut
    /\ UNCHANGED <<solving, heap>>

\* list(bruteforce(sudoku))
CallBruteforce ==
    /\ out.op = "none"
    /\ out' = [op |-> "bruteforce", grids |-> bruteforce(sudoku, FALSE), flag |-> FALSE]
    /\ UNCHANGED <<sudoku, writes, solving, heap>>

\* list(dlx(sudoku))
CallDlx ==
    /\ out.op = "none"
    /\ out' = [op |-> "dlx", grids |-> dlx(sudoku), flag |-> FALSE]
    /\ UNCHANGED <<sudoku, writes, solving, heap>>

\* is_unique(sudoku)
CallIsUnique ==
    /\ out.op = "none"
    /\ out' = [op |-> "is_unique", grids |-> <<>>, flag |-> is_unique(sudoku)]
    /\ UNCHANGED <<sudoku, writes, solving, heap>>

Next == SetItem \/ CallBruteforce \/ CallDlx \/ CallIsUnique

Spec == Init /\ [][Next]_vars

\* 4x4 grids with three and four givens
Sparse4a == <<0,0,0,1, 0,0,0,0, 1,4,0,0, 0,0,0,0>>

Sparse4b == <<0,0,0,3, 0,0,1,0, 1,0,0,0, 0,2,0,0>>

\* a grid and every grid that differs from it in one field
Variants(s) ==
    {s} \cup {setitem(s, rc, value) : rc \in Cells(s), value \in 0..Side(s)}

\* The grids solve is called with: every 2x2 grid of both box shapes, and
\* the 4x4 grids one write away from the two sparse grids
SolveGrids ==
    {decode(size, items) : size \in {<<2, 1>>, <<1, 2>>}, items \in [1..4 -> 0..2]}
    \cup Variants(decode(<<2, 2>>, Sparse4a))
    \cup Variants(decode(<<2, 2>>, Sparse4b))

SolveInit ==
    /\ sudoku \in SolveGrids
    /\ writes = 0
    /\ out = NoOut
    /\ solving = NotSolving
    /\ heap = NoHeap

\* solve(sudoku) is called (by the caller, by rate or by score)
CallSolve ==
    /\ solving.pc = "idle"
    /\ solving' = solve_enter(sudoku)
    /\ UNCHANGED <<sudoku, writes, out, heap>>

\* the next class of SOLVERS is run on the working grid
SolveTurn ==
    /\ solving.pc = "loop"
    /\ solving.turns < MaxTurns
    /\ solving' = solve_turn(solving)
    /\ UNCHANGED <<sudoku, writes, out, heap>>

SolveNext == CallSolve \/ SolveTurn

SolveSpec == SolveInit /\ [][SolveNext]_vars

\* a 6x6 grid (boxes 3 wide, 2 high) with one completion, which solve works
\* on with HiddenSingle, PointingPair, XWing and Bruteforce
XWing6 ==
    <<3,2,0,0,0,0,
      0,4,5,0,0,2,
      5,6,0,0,0,0,
      4,0,2,0,0,6,
      2,5,0,0,1,0,
      0,0,4,0,2,5>>

\* 9x9 grids with one completion each: solve works on them with NakedPair and
\* HiddenPair,
Pairs9 ==
    <<0,0,0,0,0,5,4,0,6,
      4,1,0,7,0,3,5,2,8,
      8,5,0,0,2,4,0,9,0,
      5,6,1,0,7,8,0,4,0,
      7,8,3,4,5,0,0,6,0,
      2,9,4,0,0,6,8,5,7,
      0,4,5,0,0,7,2,1,9,
      1,7,0,5,0,0,0,8,4,
      0,0,8,0,4,1,0,0,5>>

\* with NakedPair and PointingPair,
Pointing9 ==
    <<0,9,0,0,8,0,6,7,0,
      1,0,7,6,5,9,0,0,8,
      8,6,0,1,3,7,9,5,0,
      7,1,0,3,2,8,0,6,9,
      0,8,9,7,6,5,0,1,0,
      0,0,6,9,4,1,0,0,7,
      9,2,1,0,7,6,0,0,5,
      0,7,0,0,9,3,1,0,6,
      6,0,0,0,1,0,7,9,0>>

\* with NakedTriple, HiddenTriple, HiddenPair and Bruteforce,
Triples9 ==
    <<0,6,0,0,0,7,9,3,2,
      0,5,3,9,0,0,0,0,0,
      0,9,7,0,1,3,6,8,5,
      0,0,5,1,2,4,8,9,6,
      9,4,6,3,7,8,5,2,1,
      0,8,0,0,0,0,4,7,3,
      0,0,0,0,3,0,0,5,8,
      5,0,8,7,0,0,3,0,9,
      0,0,0,8,0,5,2,0,0>>

\* and with PointingPair, PointingTriple and Bruteforce
PointingTriple9 ==
    <<8,3,5,7,9,0,0,0,1,
      2,7,4,0,0,3,0,5,9,
      9,6,1,2,5,0,3,0,7,
      6,0,7,0,4,0,0,0,3,
      4,0,3,0,2,0,7,0,0,
      5,8,2,3,7,0,0,0,4,
      3,4,6,0,0,2,0,7,0,
      7,2,8,0,3,5,1,0,6,
      1,5,9,0,6,7,0,3,2>>

\* The grids with one completion solve is called with: those of SolveGrids,
\* and larger ones that the later classes of SOLVERS find steps in
UniqueGrids ==
    {g \in SolveGrids : is_unique(g)}
    \cup {decode(<<3, 2>>, XWing6)}
    \cup {decode(<<3, 3>>, items) : items \in {Pairs9, Pointing9, Triples9, PointingTriple9}}

UniqueInit ==
    /\ sudoku \in UniqueGrids
    /\ writes = 0
    /\ out = NoOut
    /\ solving = NotSolving
    /\ heap = NoHeap

UniqueNext == CallSolve \/ SolveTurn

UniqueSpec == UniqueInit /\ [][UniqueNext]_vars

\* the integer square root of count (int(count ** 0.5) for the counts here)
IntSqrt(count) == CHOOSE k \in 0..count : k * k <= count /\ count < (k + 1) * (k + 1)

\* the first divisor of length when the search runs from length - 1 down
FirstDivisor_downwards(length) == Max({i \in 2..length : length % i = 0 /\ i < length} \cup {1})

\* the first i of range(2, length + 1) that divides length
FirstDivisor(length) == Min({i \in 2..length : length % i = 0})

\* Sudoku.decode, "try to get size automatically": the size for count
\* fields, or the ValueError it raises
auto_size(count) ==
    LET length == IntSqrt(count)
        root == IntSqrt(length)
    IN  IF length * length # count
        THEN [ok |-> FALSE, error |-> "ValueError", size |-> <<>>]
        ELSE IF root * root = length
        THEN [ok |-> TRUE, error |-> "", size |-> <<root, root>>]
        ELSE IF FirstDivisor(length) = length
        THEN [ok |-> FALSE, error |-> "ValueError", size |-> <<>>]
        ELSE [ok |-> TRUE, error |-> "",
              size |-> <<FirstDivisor(length), length \div FirstDivisor(length)>>]

\* the 6x6 example of tests/test_solve.py and its solution
Puzzle6 ==
    <<1,2,3,4,5,6, 6,3,0,0,0,1, 5,0,0,0,0,2, 4,6,2,5,1,3, 3,1,4,6,2,5, 2,5,1,3,6,4>>

Solution6 ==
    <<1,2,3,4,5,6, 6,3,5,2,4,1, 5,4,6,1,3,2, 4,6,2,5,1,3, 3,1,4,6,2,5, 2,5,1,3,6,4>>

\* a list of fields and every list that has one more field empty
Erased(items) == {items} \cup {[items EXCEPT ![k] = 0] : k \in DOMAIN items}

\* The 6x6 grids the solvers are called with: the example and the examples
\* with one more empty field, decoded without a size and with size (3, 2)
RectangleGrids ==
    {decode(size, items) : size \in {auto_size(Len(Puzzle6)).size, <<3, 2>>},
                           items \in Erased(Puzzle6)}

RectangleInit ==
    /\ sudoku \in RectangleGrids
    /\ writes = 0
    /\ out = NoOut
    /\ solving = NotSolving
    /\ heap = NoHeap

RectangleNext == CallBruteforce \/ CallDlx \/ CallIsUnique

RectangleSpec == RectangleInit /\ [][RectangleNext]_vars

\* the empty grids of every box size up to MaxBox x MaxBox
GeometryInit ==
    /\ sudoku \in {Sudoku(<<width, height>>) : width \in 1..MaxBox, height \in 1..MaxBox}
    /\ writes = 0
    /\ out = NoOut
    /\ solving = NotSolving
    /\ heap = NoHeap

\* sudoku.surrounding_of(row, col, include)
CallSurroundingOf ==
    /\ out.op = "none"
    /\ \E rc \in Cells(sudoku) : \E include \in BOOLEAN :
          out' = [op |-> "surrounding_of", grids |-> <<>>, flag |-> include, rc |-> rc,
                  coords |-> surrounding_of(sudoku, rc[1], rc[2], include)]
    /\ UNCHANGED <<sudoku, writes, solving, heap>>

\* sudoku.box_at(row, col)
CallBoxAt ==
    /\ out.op = "none"
    /\ \E rc \in Cells(sudoku) :
          out' = [op |-> "box_at", grids |-> <<>>, flag |-> FALSE, rc |-> rc,
                  box |-> box_at(sudoku, rc[1], rc[2])]
    /\ UNCHANGED <<sudoku, writes, solving, heap>>

\* the_box(box, width, height) for the box numbers of the grid and the two
\* numbers next to them
CallTheBox ==
    /\ out.op = "none"
    /\ \E box \in -1..Side(sudoku) :
          LET result == the_box(box, sudoku.width, sudoku.height)
          IN  out' = [op |-> "the_box", grids |-> <<>>, flag |-> FALSE, box |-> box,
                      error |-> result.error, coords |-> result.coords]
    /\ UNCHANGED <<sudoku, writes, solving, heap>>

GeometryNext == CallSurroundingOf \/ CallBoxAt \/ CallTheBox

GeometrySpec == GeometryInit /\ [][GeometryNext]_vars

\* is_solved(sudoku)
CallIsSolved ==
    /\ out.op = "none"
    /\ out' = [op |-> "is_solved", grids |-> <<>>, flag |-> is_solved(sudoku)]
    /\ UNCHANGED <<sudoku, writes, solving, heap>>

\* list(find_conflicts(sudoku))
CallFindConflicts ==
    /\ out.op = "none"
    /\ out' = [op |-> "find_conflicts", grids |-> <<>>, flag |-> FALSE,
               conflicts |-> find_conflicts(sudoku, <<>>)]
    /\ UNCHANGED <<sudoku, writes, solving, heap>>

\* init_candidates(sudoku): works on the grid itself
CallInitCandidates ==
    /\ out.op = "none"
    /\ sudoku' = init_candidates(sudoku)
    /\ out' = [op |-> "init_candidates", grids |-> <<sudoku>>, flag |-> FALSE]
    /\ UNCHANGED <<writes, solving, heap>>

AnalyzeNext == SetItem \/ CallIsSolved \/ CallFindConflicts \/ CallInitCandidates

AnalyzeSpec == Init /\ [][AnalyzeNext]_vars

\* the first 9x9 example of tests/test_solve.py
Example9 ==
    <<0,0,3,0,2,0,6,0,0,
      9,0,0,3,0,5,0,0,1,
      0,0,1,8,0,6,4,0,0,
      0,0,8,1,0,2,9,0,0,
      7,0,0,0,0,0,0,0,8,
      0,0,6,7,0,8,2,0,0,
      0,0,2,6,0,9,5,0,0,
      8,0,0,2,0,3,0,0,9,
      0,0,5,0,1,0,3,0,0>>

\* EXAMPLE of tests/test_solvers.py
StepsExample9 ==
    <<0,0,0,0,7,0,0,0,5,
      6,0,0,0,5,1,8,0,7,
      0,0,0,8,0,0,0,4,0,
      0,0,2,0,0,0,3,0,1,
      0,1,0,0,0,2,0,0,0,
      0,3,0,0,0,0,0,9,0,
      5,0,9,0,0,0,0,1,2,
      8,0,0,0,0,0,4,0,6,
      0,0,4,0,0,6,0,0,0>>

\* The 9x9 grids the finder is called with: the two examples and the
\* examples with one more empty field
NakedGrids ==
    {decode(auto_size(81).size, items) : items \in Erased(Example9) \cup Erased(StepsExample9)}

NakedInit ==
    /\ sudoku \in NakedGrids
    /\ writes = 0
    /\ out = NoOut
    /\ solving = NotSolving
    /\ heap = NoHeap

\* list(NakedPair.find(sudoku)), after init_candidates(sudoku)
CallFindNakedPair ==
    /\ out.op = "init_candidates"
    /\ out' = [op |-> "find", grids |-> <<>>, flag |-> FALSE,
               steps |-> NakedTuple_find("NakedPair", 2, sudoku, FALSE).steps]
    /\ UNCHANGED <<sudoku, writes, solving, heap>>

\* step.apply(sudoku) for one of the steps found
ApplyStep ==
    /\ out.op = "find"
    /\ \E k \in DOMAIN out.steps :
          /\ sudoku' = apply(out.steps[k], sudoku)
          /\ out' = [op |-> "apply", grids |-> <<sudoku>>, flag |-> FALSE,
                     step |-> out.steps[k]]
    /\ UNCHANGED <<writes, solving, heap>>

NakedNext == CallInitCandidates \/ CallFindNakedPair \/ ApplyStep

NakedSpec == NakedInit /\ [][NakedNext]_vars

\* Sudoku.decode building the object: the reading loops write the number and
\* the candidates of every field (two loops in the code; they write different
\* lists, so the model takes them field by field)
RECURSIVE read_fields(_, _, _, _)
read_fields(h, s, coords, k) ==
    IF k > Len(coords) THEN h
    ELSE LET row == coords[k][1]
             col == coords[k][2]
             numbered == Sudoku_setitem(h, 1, row, col, s.num[coords[k]])
             written == Sudoku_set_candidates(numbered.heap, 1, row, col,
                                              s.cand[coords[k]])
         IN  IF numbered.error # "" \/ written.error # "" THEN h
             ELSE read_fields(written.heap, s, coords, k + 1)

Sudoku_decode(s) == read_fields(Sudoku_init(NoHeap, <<s.width, s.height>>), s, Iter(s), 1)

\* the grids the objects are built from: two numbers and their candidates
ObjectGrids ==
    {init_candidates(decode(size, <<1, 0, 0, 2>>)) : size \in {<<2, 1>>, <<1, 2>>}}

\* the row and column indices the caller uses: those of the grid and the
\* integers around them
Coordinates(s) == (-Side(s) - 1)..Side(s)

\* the candidate sets the caller passes
CandidateSets == {{1}, {1, 2}}

ObjectInit ==
    /\ sudoku \in ObjectGrids
    /\ writes = 0
    /\ out = NoOut
    /\ solving = NotSolving
    /\ heap = Sudoku_decode(sudoku)

\* what the caller keeps of a call: the call, its arguments, what it
\* returned or raised, and the objects as they were before
Called(op, g, row, col, result) ==
    [op |-> op, grids |-> Views(heap), flag |-> FALSE, g |-> g, row |-> row,
     col |-> col, error |-> result.error, value |-> result.value]

\* sudoku.copy(include_candidates), once
CallCopy ==
    /\ Len(heap.grids) = 1
    /\ \E include_candidates \in BOOLEAN :
          /\ heap' = Sudoku_copy(heap, 1, include_candidates)
          /\ out' = [op |-> "copy", grids |-> Views(heap), flag |-> include_candidates]
    /\ UNCHANGED <<sudoku, writes, solving>>

\* g[row, col] and g.get_candidates(row, col), for either object
CallGet ==
    /\ writes < MaxCalls
    /\ \E g \in DOMAIN heap.grids : \E row \in Coordinates(sudoku) :
       \E col \in Coordinates(sudoku) :
          \/ out' = Called("getitem", g, row, col, Sudoku_getitem(heap, g, row, col))
          \/ out' = Called("get_candidates", g, row, col,
                           Sudoku_get_candidates(heap, g, row, col))
    /\ writes' = writes + 1
    /\ UNCHANGED <<sudoku, solving, heap>>

\* g[row, col] = value, g.set_candidates(row, col, value) and
\* g.remove_candidates(row, col, value), for either object
CallSet ==
    /\ writes < MaxCalls
    /\ \E g \in DOMAIN heap.grids : \E row \in Coordinates(sudoku) :
       \E col \in Coordinates(sudoku) :
          \/ \E value \in 0..Side(sudoku) :
                LET result == Sudoku_setitem(heap, g, row, col, value)
                IN  heap' = result.heap /\ out' = Called("setitem", g, row, col, result)
          \/ \E value \in CandidateSets :
                LET result == Sudoku_set_candidates(heap, g, row, col, value)
                IN  /\ heap' = result.heap
                    /\ out' = Called("set_candidates", g, row, col, result)
          \/ \E value \in CandidateSets :
                LET result == Sudoku_remove_candidates(heap, g, row, col, value)
                IN  /\ heap' = result.heap
                    /\ out' = Called("remove_candidates", g, row, col, result)
    /\ writes' = writes + 1
    /\ UNCHANGED <<sudoku, solving>>

ObjectNext == CallCopy \/ CallGet \/ CallSet

ObjectSpec == ObjectInit /\ [][ObjectNext]_vars

\* the caller holds no grid yet
NoSudoku == [width |-> 0, height |-> 0, num |-> <<>>, cand |-> <<>>]

\* The strings decode is called with, without a size: count fields, all
\* empty, for every count up to MaxSide * MaxSide
DecodeInit ==
    /\ sudoku = NoSudoku
    /\ writes = 0
    /\ \E count \in 1..(MaxSide * MaxSide) :
          out = [op |-> "string", grids |-> <<>>, flag |-> FALSE,
                 items |-> [k \in 1..count |-> 0]]
    /\ solving = NotSolving
    /\ heap = NoHeap

\* sudoku = Sudoku.decode(s): the size is inferred and the fields are read,
\* or ValueError is raised and the caller has no grid
CallDecode ==
    /\ out.op = "string"
    /\ LET size == auto_size(Len(out.items))
       IN  /\ sudoku' = IF size.ok THEN decode(size.size, out.items) ELSE sudoku
           /\ out' = [op |-> "decode", grids |-> <<>>, flag |-> size.ok,
                      items |-> out.items, error |-> size.error]
    /\ UNCHANGED <<writes, solving, heap>>

DecodeNext == CallDecode

DecodeSpec == DecodeInit /\ [][DecodeNext]_vars

\* bruteforce up to the return of _do_bruteforce: solution = sudoku.copy(),
\* init_candidates(solution), _do_bruteforce(solution, reverse).  grids holds
\* the grid _do_bruteforce is called with, before and after the working grid
\* at the call and at its return.
EnterBruteforce ==
    /\ out.op = "none"
    /\ \E reverse \in BOOLEAN :
          LET solution == init_candidates(copy(sudoku, FALSE))
              r == do_bruteforce(solution, reverse)
          IN  out' = [op |-> "do_bruteforce", grids |-> <<solution>>, flag |-> r.ok,
                      reverse |-> reverse, field |-> <<0, 0>>,
                      before |-> solution, after |-> r.sudoku]
    /\ UNCHANGED <<sudoku, writes, solving, heap>>

\* One turn of the loop "for candidate in next_candidates" in the call of
\* _do_bruteforce on the grid grids[1]: the loop reaches its k-th candidate
\* when the earlier ones have failed.  before is the working grid when the
\* candidate is tried, after the grid when the turn is over (flag: the turn
\* returned True), and grids holds the grid of the recursive call.
TryCandidate ==
    /\ out.op \in {"do_bruteforce", "candidate"}
    /\ Len(empty(out.grids[1])) > 0
    /\ LET node == out.grids[1]
           rc == FirstSortedEmpty(node)
           asc == Ascending(node.cand[rc])
           candidates == IF out.reverse THEN Reversed(asc) ELSE asc
       IN  \E n \in DOMAIN candidates :
              LET earlier == try_candidates(node, rc, SubSeq(candidates, 1, n - 1),
                                            1, out.reverse)
                  r == try_candidates(earlier.sudoku, rc, <<candidates[n]>>,
                                      1, out.reverse)
              IN  /\ ~earlier.ok
                  /\ out' = [op |-> "candidate",
                             grids |-> <<place_candidate(earlier.sudoku, rc,
                                                         candidates[n])>>,
                             flag |-> r.ok, reverse |-> out.reverse, field |-> rc,
                             before |-> earlier.sudoku, after |-> r.sudoku]
    /\ UNCHANGED <<sudoku, writes, solving, heap>>

\* do_dlx up to its call of solve: the matrix is built and every filled
\* field is selected.  X is the matrix solve is called with; a KeyError ends
\* do_dlx before it (flag).
EnterDlx ==
    /\ out.op = "none"
    /\ LET s == copy(sudoku, FALSE)
           st == SelectFilled(s, [keyerror |-> FALSE,
                                  X |-> ExactCoverOf[<<s.width, s.height>>],
                                  cols |-> <<>>],
                              filled(s), 1)
       IN  out' = [op |-> IF st.keyerror THEN "do_dlx_keyerror" ELSE "do_dlx",
                   grids |-> <<>>, flag |-> st.keyerror,
                   X |-> IF st.keyerror THEN <<>> ELSE st.X,
                   row |-> <<>>, before |-> <<>>, after |-> <<>>]
    /\ UNCHANGED <<sudoku, writes, solving, heap>>

\* One turn of the loop "for r in list(X[c])" in the call of dlx.solve on the
\* matrix out.X: the loop reaches its n-th row when the turns for the earlier
\* rows are over.  before is X when r is selected, after is X when
\* deselect has returned, and X becomes the matrix of the recursive call.
SelectRow ==
    /\ out.op \in {"do_dlx", "select"}
    /\ DOMAIN out.X # {}
    /\ LET rows == RowList(sudoku, out.X[MinColumn(sudoku, out.X)])
       IN  \E n \in DOMAIN rows :
              LET earlier == dlx_rows(sudoku, out.X, {}, SubSeq(rows, 1, n - 1), 1)
                  sel == select(sudoku, earlier.X, rows[n])
                  sub == dlx_solve(sudoku, sel.X, {})
                  des == deselect(sudoku, sub.X, rows[n], sel.cols)
              IN  out' = [op |-> "select", grids |-> <<>>,
                          flag |-> sel.keyerror \/ des.keyerror,
                          X |-> sel.X, row |-> rows[n],
                          before |-> earlier.X, after |-> des.X]
    /\ UNCHANGED <<sudoku, writes, solving, heap>>

\* the grids the read-only routines are called with: 2x2 grids and the 4x4
\* grids one write away from an open grid, each without candidates and with
\* the candidates init_candidates gives
ReadOnlyGrids ==
    LET given == {decode(<<2, 1>>, items) : items \in [1..4 -> 0..2]}
                 \cup Variants(decode(<<2, 2>>, Open4))
    IN  given \cup {init_candidates(g) : g \in given}

ReadOnlyInit ==
    /\ sudoku \in ReadOnlyGrids
    /\ writes = 0
    /\ out = NoOut
    /\ solving = NotSolving
    /\ heap = Sudoku_decode(sudoku)

\* what the caller keeps of a call on its object
CalledOn(op) == [op |-> op, grids |-> <<>>, flag |-> FALSE]

\* list(cls.find(sudoku)) for a class of SOLVERS
CallFind ==
    /\ out.op = "none"
    /\ \E k \in DOMAIN SOLVERS : heap' = find_call(heap, 1, SOLVERS[k])
    /\ out' = CalledOn("find")
    /\ UNCHANGED <<sudoku, writes, solving>>

\* bruteforce(sudoku, reverse)
CallBruteforceOn ==
    /\ out.op = "none"
    /\ \E reverse \in BOOLEAN : heap' = bruteforce_call(heap, 1, reverse)
    /\ out' = CalledOn("bruteforce")
    /\ UNCHANGED <<sudoku, writes, solving>>

\* list(dlx(sudoku)), and is_unique(sudoku), which takes two solutions
CallDlxOn ==
    /\ out.op = "none"
    /\ \/ heap' = dlx_call(heap, 1, Cardinality(DlxRows(sudoku))) /\ out' = CalledOn("dlx")
       \/ heap' = dlx_call(heap, 1, 2) /\ out' = CalledOn("is_unique")
    /\ UNCHANGED <<sudoku, writes, solving>>

\* solve(sudoku), rate(sudoku) and score(sudoku): rate and score call solve
\* with a report function that collects the steps
CallSolveOn ==
    /\ out.op = "none"
    /\ heap' = solve_call(heap, 1)
    /\ \E op \in {"solve", "rate", "score"} : out' = CalledOn(op)
    /\ UNCHANGED <<sudoku, writes, solving>>

ReadOnlyNext == CallFind \/ CallBruteforceOn \/ CallDlxOn \/ CallSolveOn

ReadOnlySpec == ReadOnlyInit /\ [][ReadOnlyNext]_vars

\* solutions = bruteforce(sudoku) or solutions = dlx(sudoku), for the grid of
\* the caller as object 1.  working is the object the search works on, ys the
\* grids the search will come to, taken the objects handed out so far and
\* seen what each of them held when it was handed out.  bruteforce has run
\* its search when it returns, and what it returns is the working object.
OpenStream ==
    /\ out.op = "none"
    /\ heap = NoHeap
    /\ LET given == Sudoku_decode(sudoku)
       IN  \/ /\ heap' = bruteforce_call(given, 1, FALSE)
              /\ out' = [op |-> "bruteforce_stream", grids |-> <<>>, flag |-> FALSE,
                         working |-> 2, ys |-> bruteforce(sudoku, FALSE),
                         taken |-> <<>>, seen |-> <<>>]
           \/ /\ heap' = Sudoku_copy(given, 1, FALSE)
              /\ out' = [op |-> "dlx_stream", grids |-> <<>>, flag |-> FALSE,
                         working |-> 2, ys |-> do_dlx(copy(sudoku, FALSE)),
                         taken |-> <<>>, seen |-> <<>>]
    /\ UNCHANGED <<sudoku, writes, solving>>

\* next(solutions): the next grid is handed out, or the stream ends (flag).
\* bruteforce hands out its one object; dlx writes the next solution into
\* the working object and hands out a copy of it.
NextSolution ==
    /\ out.op \in {"bruteforce_stream", "dlx_stream"}
    /\ ~out.flag
    /\ LET n == Len(out.taken) + 1
       IN  IF n > Len(out.ys)
           THEN /\ out' = [out EXCEPT !.flag = TRUE]
                /\ UNCHANGED heap
           ELSE IF out.op = "bruteforce_stream"
           THEN /\ out' = [out EXCEPT !.taken = Append(@, out.working),
                                      !.seen = Append(@, View(heap, out.working))]
                /\ UNCHANGED heap
           ELSE /\ heap' = dlx_yields(heap, out.working, <<out.ys[n]>>, 1)
                /\ out' = [out EXCEPT !.taken = Append(@, Len(heap'.grids)),
                                      !.seen = Append(@, View(heap', Len(heap'.grids)))]
    /\ UNCHANGED <<sudoku, writes, solving>>

\* the candidate sets the caller gives to the fields of a 4x4 and of a 6x6 grid
TupleOptions4 == {{4}, {1, 2}, {2, 3}, {1, 2, 3}, {1, 2, 3, 4}}

TupleOptions6 == {{1, 2}, {3, 4}, {1, 2, 3}, {1, 2, 3, 4}, {1, 2, 3, 4, 5}}

\* The grids the naked tuple finders are called with.  4x4: no number or
\* the first row filled, the candidates init_candidates gives, and then
\* set_candidates by the caller on the first row and the rest of the first
\* box.  6x6: no number, all candidates everywhere but in five fields of
\* the first row, where the caller has set candidates.
TupleGrids ==
    LET rows4 == {<<0,0,0,0, 0,0,0,0, 0,0,0,0, 0,0,0,0>>,
                  <<1,2,3,4, 0,0,0,0, 0,0,0,0, 0,0,0,0>>}
        set4 == {<<0, 0>>, <<0, 1>>, <<0, 2>>, <<0, 3>>, <<1, 0>>, <<1, 1>>}
        set6 == {<<0, 0>>, <<0, 1>>, <<0, 2>>, <<0, 3>>, <<0, 4>>}
        base6 == init_candidates(Sudoku(<<3, 2>>))
    IN  {[g EXCEPT !.cand = [rc \in Cells(g) |->
                                IF rc \in set4 THEN c[rc] ELSE g.cand[rc]]] :
            g \in {init_candidates(decode(<<2, 2>>, items)) : items \in rows4},
            c \in [set4 -> TupleOptions4]}
        \cup {[base6 EXCEPT !.cand = [rc \in Cells(base6) |->
                                IF rc \in set6 THEN c[rc] ELSE base6.cand[rc]]] :
                 c \in [set6 -> TupleOptions6]}

TupleInit ==
    /\ sudoku \in TupleGrids
    /\ writes = 0
    /\ out = NoOut
    /\ solving = NotSolving
    /\ heap = NoHeap

\* list(cls.find(sudoku)) for cls one of NakedPair, NakedTriple, NakedQuad
\* and NakedQuint
CallFindNakedTuple ==
    /\ out.op = "none"
    /\ \E k \in {4, 6, 8, 10} :
          out' = [op |-> "find_naked", grids |-> <<>>, flag |-> FALSE,
                  n |-> SOLVERS[k].n, steps |-> find(SOLVERS[k], sudoku, FALSE).steps]
    /\ UNCHANGED <<sudoku, writes, solving, heap>>

TupleNext == CallFindNakedTuple

TupleSpec == TupleInit /\ [][TupleNext]_vars

\* solve.is_unique(sudoku) and analyze.is_unique(sudoku) on the same grid
CallBothIsUnique ==
    /\ out.op = "none"
    /\ out' = [op |-> "both_is_unique", grids |-> <<>>,
               flag |-> solve_is_unique(sudoku), analyze |-> is_unique(sudoku)]
    /\ UNCHANGED <<sudoku, writes, solving, heap>>

UniquenessNext == SetItem \/ CallBothIsUnique

UniquenessSpec == Init /\ [][UniquenessNext]_vars

StreamNext == SetItem \/ OpenStream \/ NextSolution

StreamSpec == Init /\ [][StreamNext]_vars

DlxNext == SetItem \/ EnterDlx \/ SelectRow

DlxSpec == Init /\ [][DlxNext]_vars

BacktrackNext == SetItem \/ EnterBruteforce \/ TryCandidate

BacktrackSpec == Init /\ [][BacktrackNext]_vars

-----------------------------------------------------------------------------
(* What the claims speak of, stated without the library's code *)

\* two different cells of one row, one column or one box
SameHouse(s, a, b) ==
    /\ a # b
    /\ \/ a[1] = b[1]
       \/ a[2] = b[2]
       \/ /\ a[1] \div s.height = b[1] \div s.height
          /\ a[2] \div s.width = b[2] \div s.width

\* two filled cells of one house hold the same number
HasConflict(s) ==
    \E a \in Cells(s) : \E b \in Cells(s) :
        SameHouse(s, a, b) /\ s.num[a] # 0 /\ s.num[a] = s.num[b]

NoEmptyCell(s) == \A rc \in Cells(s) : s.num[rc] # 0

RowPermutations(n) ==
    {p \in [1..n -> 1..n] : \A i \in 1..n : \A j \in 1..n : p[i] = p[j] => i = j}

\* row p may be put below the rows of st
RowFits(size, st, p) ==
    LET s == Sudoku(size)
    IN  \A i \in DOMAIN st : \A c1 \in 1..Len(p) : \A c2 \in 1..Len(p) :
            (c1 = c2 \/ SameHouse(s, <<i - 1, c1 - 1>>, <<Len(st), c2 - 1>>))
                => st[i][c1] # p[c2]

\* the lists of k rows that hold no conflict
RECURSIVE RowStacks(_, _)
RowStacks(size, k) ==
    IF k = 0 THEN {<<>>}
    ELSE UNION {{Append(st, p) : p \in {q \in RowPermutations(size[1] * size[2]) :
                                            RowFits(size, st, q)}} :
                st \in RowStacks(size, k - 1)}

\* every solved grid of a size, each as its table of numbers
SolvedGrids ==
    [size \in Sizes |->
        {[rc \in Cells(Sudoku(size)) |-> st[rc[1] + 1][rc[2] + 1]] :
            st \in RowStacks(size, size[1] * size[2])}]

\* the conflict-free completions of s: the solved grids that keep its numbers
Completions(s) ==
    {t \in SolvedGrids[<<s.width, s.height>>] :
        \A rc \in Cells(s) : s.num[rc] # 0 => t[rc] = s.num[rc]}

\* the number tables of the grids of a list
NumbersOf(grids) == {grids[k].num : k \in DOMAIN grids}

-----------------------------------------------------------------------------
(* The claims *)

\* C1: for every grid, the set of grids that bruteforce yields equals the
\* set of grids that dlx yields.
C1_BruteforceEqualsDlx ==
    out.op = "bruteforce" => NumbersOf(out.grids) = NumbersOf(dlx(sudoku))

\* C2: for a conflict-free grid, bruteforce yields exactly the solved
\* completions of the grid (and nothing when there is none).
C2_BruteforceYieldsCompletions ==
    (out.op = "bruteforce" /\ ~HasConflict(sudoku))
        => NumbersOf(out.grids) = Completions(sudoku)

\* C3: when the grid has a conflict, bruteforce and dlx each yield no grid.
C3_ConflictYieldsNothing ==
    (out.op \in {"bruteforce", "dlx"} /\ HasConflict(sudoku))
        => Len(out.grids) = 0

\* C4: is_unique returns true if and only if the grid has exactly one
\* conflict-free completion: false when there is none (so for every grid
\* with a conflict) and false when there are two or more.
C4_IsUniqueIffOneCompletion ==
    out.op = "is_unique"
        => (out.flag <=> Cardinality(Completions(sudoku)) = 1)

\* C4 witness: is_unique answered true for a grid that still has empty cells
C4_Witness ==
    /\ out.op = "is_unique"
    /\ out.flag
    /\ ~NoEmptyCell(sudoku)

\* C5 as stated: is_unique returns true for every grid with no empty cell.
C5_CompletedIsUnique ==
    (out.op = "is_unique" /\ NoEmptyCell(sudoku)) => out.flag

\* C5 amended: is_unique returns true for every grid with no empty cell and
\* no conflict.
C5_SolvedIsUnique ==
    (out.op = "is_unique" /\ NoEmptyCell(sudoku) /\ ~HasConflict(sudoku))
        => out.flag

\* C5 witness: is_unique was called on a solved grid that the caller wrote to
C5_Witness ==
    /\ out.op = "is_unique"
    /\ NoEmptyCell(sudoku)
    /\ ~HasConflict(sudoku)
    /\ writes > 0

\* C6: every step that a finder of SOLVERS yields, applied to a conflict-free
\* grid whose candidates have been computed, leaves the grid conflict-free
\* and leaves no filled field empty.  solve applies exactly these steps to
\* its working grid, which starts as the conflict-free grid it was given.
C6_StepsKeepGridConflictFree ==
    (solving.pc # "idle" /\ ~HasConflict(sudoku))
        => /\ ~HasConflict(solving.solution)
           /\ \A rc \in Cells(sudoku) :
                 sudoku.num[rc] # 0 => solving.solution.num[rc] # 0

\* C7: for a grid with at least one conflict-free completion, solve returns
\* (here: within MaxTurns turns), and what it returns is one of the
\* completions: complete, conflict-free, with every number of the grid kept
\* (so the unique completion if there is only one).
C7_SolvableIsSolved ==
    Completions(sudoku) # {}
        => /\ solving.pc = "loop" => solving.turns < MaxTurns
           /\ solving.pc = "done" => solving.solution.num \in Completions(sudoku)

\* C7 witness: solve has returned for a 4x4 grid with empty fields and
\* exactly one completion
C7_Witness ==
    /\ solving.pc = "done"
    /\ Side(sudoku) = 4
    /\ ~NoEmptyCell(sudoku)
    /\ Cardinality(Completions(sudoku)) = 1
    /\ solving.solution.num \in Completions(sudoku)

\* C8: solve terminates for every grid, also for a grid without completion.
\* The loop of solve has no state but the working grid and its place in
\* SOLVERS, and a turn that yields a step starts the for loop anew.  So when
\* such a turn leaves the working grid as it was, the turns that led to it
\* come again in the same state, and again without end: termination needs
\* every turn that yields a step to change the working grid.
C8_SolveTerminates ==
    solving.last.count > 0 => solving.last.changed

C10_ScoreAtMostTenPerEmpty ==
    solving.pc = "done" => solving.score <= 10 * Len(empty(sudoku))

\* C11: is_solved(g) is true if and only if g has no empty cell and no two
\* filled cells of one row, column or box hold the same number.
C11_IsSolvedIffFullAndConflictFree ==
    out.op = "is_solved"
        => (out.flag <=> (NoEmptyCell(sudoku) /\ ~HasConflict(sudoku)))

\* is_solved has answered true for a 4x4 grid the caller has written to
C11_Witness ==
    out.op = "is_solved" /\ out.flag /\ Side(sudoku) = 4 /\ writes > 0

\* C13: after init_candidates(g) the numbers of g are unchanged, every
\* filled cell's candidate set is exactly {its number}, and every empty
\* cell's candidate set is 1..N minus the numbers held by the other cells of
\* its row, column and box.
C13_InitCandidatesResult ==
    out.op = "init_candidates"
        => /\ sudoku.num = out.grids[1].num
           /\ \A rc \in Cells(sudoku) :
                 sudoku.cand[rc] =
                    IF sudoku.num[rc] # 0 THEN {sudoku.num[rc]}
                    ELSE numbers(sudoku) \
                            {sudoku.num[ij] : ij \in {x \in Cells(sudoku) :
                                                        SameHouse(sudoku, rc, x)}}

\* the solvers' answers for the 6x6 example taken with a box size, once one
\* of them has been called: bruteforce
\* and dlx each yield the solution and nothing else, is_unique is true, and
\* the solution is full, free of conflicts and keeps the givens
RectangleExampleSolved(size) ==
    LET solution == decode(size, Solution6)
    IN  (sudoku = decode(size, Puzzle6) /\ out.op # "none")
            => /\ out.op \in {"bruteforce", "dlx"}
                    => Len(out.grids) = 1 /\ out.grids[1].num = solution.num
               /\ out.op = "is_unique" => out.flag
               /\ NoEmptyCell(solution) /\ ~HasConflict(solution)
               /\ \A rc \in Cells(sudoku) :
                     sudoku.num[rc] # 0 => solution.num[rc] = sudoku.num[rc]

\* C12 as stated: the 6x6 example taken with box width 3 and box height 2
\* has exactly one solution, the grid 123456 / 635241 / 546132 / 462513 /
\* 314625 / 251364: bruteforce and dlx each yield exactly this grid and
\* is_unique is true.
C12_RectangleExampleWidth3 == RectangleExampleSolved(<<3, 2>>)

\* C12 amended: the same with box width 2 and box height 3, the size decode
\* infers for 36 fields.
C12_RectangleExampleWidth2 ==
    /\ auto_size(Len(Puzzle6)).size = <<2, 3>>
    /\ RectangleExampleSolved(<<2, 3>>)

\* dlx has been run on the example, decoded without a size
C12_Witness ==
    /\ sudoku = decode(auto_size(Len(Puzzle6)).size, Puzzle6)
    /\ out.op = "dlx" /\ Len(out.grids) = 1

\* a naked pair with clues ((2,5),(2,8)) and values (3,9)
IsPair39(step) == step.clues = {<<2, 5>>, <<2, 8>>} /\ step.values = {3, 9}

\* In the 9x9 grid with the given numbers, after init_candidates:
\* NakedPair.find yields a step with clues ((2,5),(2,8)) and values (3,9), and
\* applying that step removes 3 and 9 from the other cells of row 2 that
\* hold them as candidates, and changes nothing else.
NakedPairInRow2(items) ==
    sudoku.num = decode(<<3, 3>>, items).num
        => /\ out.op = "find" => \E k \in DOMAIN out.steps : IsPair39(out.steps[k])
           /\ (out.op = "apply" /\ IsPair39(out.step))
                 => /\ sudoku.num = out.grids[1].num
                    /\ \A rc \in Cells(sudoku) :
                          sudoku.cand[rc] =
                             IF rc[1] = 2 /\ rc \notin out.step.clues
                             THEN out.grids[1].cand[rc] \ {3, 9}
                             ELSE out.grids[1].cand[rc]
                    /\ sudoku.cand # out.grids[1].cand

\* C14 as stated: in the grid 003020600 / 900305001 / 001806400 / 008102900 /
\* 700000008 / 006708200 / 002609500 / 800203009 / 005010300 after
\* init_candidates, NakedPair.find yields at least one step with clues
\* ((2,5),(2,8)) and values (3,9), whose actions remove 3 and 9 from the
\* other cells of row 2 that contain them.
C14_NakedPairInSolveExample == NakedPairInRow2(Example9)

\* C14 amended: the same for the grid 000070005 / 600051807 / 000800040 /
\* 002000301 / 010002000 / 030000090 / 509000012 / 800000406 / 004006000.
C14_NakedPairInStepsExample == NakedPairInRow2(StepsExample9)

\* the naked pair of row 2 has been found in that grid and applied
C14_Witness ==
    /\ sudoku.num = decode(<<3, 3>>, StepsExample9).num
    /\ out.op = "apply" /\ IsPair39(out.step)

\* a list without repeated items
NoRepeats(seq) == \A i \in DOMAIN seq : \A j \in DOMAIN seq : seq[i] = seq[j] => i = j

\* C15: for every box size (W,H) and every cell (r,c), surrounding_of(r, c,
\* include=true) holds every cell of the row, the column and the box of (r,c)
\* exactly once and no other cell, so it has 3N - W - H entries; with
\* include=false it holds the same cells except (r,c).
C15_SurroundingOfIsTheHouses ==
    out.op = "surrounding_of"
        => LET houses == {x \in Cells(sudoku) : SameHouse(sudoku, out.rc, x)}
           IN  /\ NoRepeats(out.coords)
               /\ out.flag => /\ Range(out.coords) = houses \cup {out.rc}
                               /\ Len(out.coords) =
                                      3 * Side(sudoku) - sudoku.width - sudoku.height
               /\ ~out.flag => Range(out.coords) = houses

\* surrounding_of has been called with include=true for a cell inside a grid
\* whose boxes are wider than tall
C15_Witness ==
    /\ out.op = "surrounding_of" /\ out.flag
    /\ sudoku.width = 3 /\ sudoku.height = 2 /\ out.rc = <<3, 4>>
    /\ Len(out.coords) = 13

\* the fields of box b of a grid
BoxCells(s, b) == Range(the_box(b, s.width, s.height).coords)

\* C16: for every box size (W,H) and every cell (r,c), box_at(r,c) is in
\* [0,N) and is the one and only box index b for which (r,c) is in
\* the_box(b); the N boxes the_box(0..N-1) partition the grid.
C16_BoxAtIsTheBox ==
    /\ out.op = "box_at"
          => /\ out.box \in indices(sudoku)
             /\ \A b \in indices(sudoku) : out.rc \in BoxCells(sudoku, b) <=> b = out.box
    /\ (out.op = "the_box" /\ out.box \in indices(sudoku))
          => /\ out.error = ""
             /\ NoRepeats(out.coords) /\ Len(out.coords) = Side(sudoku)
             /\ Range(out.coords) \subseteq Cells(sudoku)
             /\ \A b \in indices(sudoku) \ {out.box} :
                   Range(out.coords) \cap BoxCells(sudoku, b) = {}

\* box_at has answered for a cell of the last box of a grid with boxes taller
\* than wide
C16_Witness ==
    /\ out.op = "box_at" /\ sudoku.width = 2 /\ sudoku.height = 3
    /\ out.rc = <<5, 4>> /\ out.box = 5

\* the calls that read or write one field of a Sudoku object
Accessors == {"getitem", "setitem", "get_candidates", "set_candidates", "remove_candidates"}

\* C17: every accessor (get, set, get_candidates, set_candidates,
\* remove_candidates) fails with an error for every (r,c) in which r or c
\* lies outside [0,N), for example r = -1 or r = N, and neither reads nor
\* writes a cell.
C17_OutsideCoordinatesFail ==
    (/\ out.op \in Accessors
     /\ out.row \notin indices(sudoku) \/ out.col \notin indices(sudoku))
        => out.error # "" /\ Views(heap) = out.grids

\* the lists an object is made of
ListsOf(h, g) ==
    LET self == h.grids[g]
    IN  {self.numbers, self.candidates}
            \cup Range(h.lists[self.numbers]) \cup Range(h.lists[self.candidates])

\* C19: copy(include_candidates=c) returns a new grid of the same box size
\* with the same number in every cell; its candidate sets equal the
\* original's when c is true and are all empty when c is false; the original
\* is as it was, and any later call on the copy leaves the original's
\* numbers and candidates unchanged, and the other way round.
C19_CopyIsIndependent ==
    /\ out.op = "copy"
          => /\ Len(heap.grids) = 2
             /\ ListsOf(heap, 1) \cap ListsOf(heap, 2) = {}
             /\ View(heap, 1) = out.grids[1]
             /\ View(heap, 2).width = out.grids[1].width
             /\ View(heap, 2).height = out.grids[1].height
             /\ View(heap, 2).num = out.grids[1].num
             /\ View(heap, 2).cand =
                   IF out.flag THEN out.grids[1].cand
                   ELSE [rc \in Cells(sudoku) |-> {}]
    /\ (out.op \in Accessors /\ Len(heap.grids) = 2)
          => View(heap, 3 - out.g) = out.grids[3 - out.g]

\* a number and the candidates of the copy have been changed, each with an
\* index inside the grid or a negative one; the copy now differs from the
\* original in both
C19_Witness ==
    /\ Len(heap.grids) = 2 /\ out.op \in Accessors /\ out.g = 2 /\ out.error = ""
    /\ writes = 2
    /\ View(heap, 2).num # View(heap, 1).num
    /\ View(heap, 2).cand # View(heap, 1).cand
    /\ View(heap, 1) = sudoku

\* decode has been called with the N * N fields of a grid of side N
DecodedSquare(N) == out.op = "decode" /\ Len(out.items) = N * N

\* C18 as stated: when decode receives N*N fields and no size, the grid it
\* builds has box width W and box height H with W*H = N, where W is the
\* largest divisor of N that is at most the square root of N (N in
\* 1..MaxSide).
C18_WidthIsLargestDivisorBelowRoot ==
    \A N \in 1..MaxSide :
        DecodedSquare(N)
            => /\ out.error = ""
               /\ sudoku.width * sudoku.height = N
               /\ sudoku.width = Max({d \in 1..N : N % d = 0 /\ d * d <= N})

\* C18 amended: the grid has W = H = the square root of N when N is a
\* square; otherwise W is the smallest divisor of N greater than 1 and
\* H = N / W, and when N has no such divisor below N (N is prime) decode
\* raises ValueError and builds no grid.
C18_WidthIsRootOrSmallestDivisor ==
    \A N \in 1..MaxSide :
        DecodedSquare(N)
            => LET roots == {d \in 1..N : d * d = N}
                   divisors == {d \in 2..(N - 1) : N % d = 0}
               IN  IF roots # {}
                   THEN /\ out.error = ""
                        /\ {sudoku.width} = roots /\ {sudoku.height} = roots
                   ELSE IF divisors = {}
                   THEN out.error = "ValueError" /\ sudoku = NoSudoku
                   ELSE /\ out.error = ""
                        /\ sudoku.width = Min(divisors)
                        /\ sudoku.width * sudoku.height = N

\* the 144 fields of a 12x12 grid have been decoded into boxes 2 wide, 6 tall
C18_Witness ==
    DecodedSquare(12) /\ out.error = "" /\ sudoku.width = 2 /\ sudoku.height = 6

\* the conflicts of a grid: the ordered pairs of different filled cells of one
\* row, column or box that hold the same number, each with that number
ConflictsOf(s) ==
    {<<a, b, s.num[a]>> : a \in {x \in Cells(s) : s.num[x] # 0},
                         b \in {x \in Cells(s) : s.num[x] # 0}}
        \cap {t \in Cells(s) \X Cells(s) \X numbers(s) :
                 SameHouse(s, t[1], t[2]) /\ s.num[t[2]] = t[3]}

\* C20: find_conflicts(g) without coordinates yields ((r1,c1),(r2,c2),v)
\* exactly for the ordered pairs of distinct filled cells that share a row,
\* column or box and both hold v, each once, so every unordered conflicting
\* pair is yielded exactly twice, once from each endpoint; it yields nothing
\* for a grid without conflicts.
C20_FindConflictsYieldsOrderedPairs ==
    out.op = "find_conflicts"
        => /\ NoRepeats(out.conflicts)
           /\ Range(out.conflicts) = ConflictsOf(sudoku)
           /\ \A k \in DOMAIN out.conflicts :
                 Cardinality({i \in DOMAIN out.conflicts :
                     {out.conflicts[i][1], out.conflicts[i][2]}
                         = {out.conflicts[k][1], out.conflicts[k][2]}}) = 2
           /\ ~HasConflict(sudoku) => out.conflicts = <<>>

\* find_conflicts has yielded for a 4x4 grid in which one cell is in conflict
\* with two others
C20_Witness ==
    /\ out.op = "find_conflicts" /\ Side(sudoku) = 4
    /\ \E k \in DOMAIN out.conflicts : \E i \in DOMAIN out.conflicts :
          /\ out.conflicts[k][1] = out.conflicts[i][1]
          /\ out.conflicts[k][2] # out.conflicts[i][2]

\* the finders of SOLVERS at the places below k yield no step on the grid s
NothingBelow(k, s) ==
    \A j \in 1..(k - 1) : Len(find(SOLVERS[j], s, FALSE).steps) = 0

\* C21: in solve, the finder at place k of SOLVERS is run only when every
\* finder at a place below k yields no step on the current working grid;
\* after a finder that yielded a step the next finder run is the first of
\* SOLVERS, and after one that yielded nothing it is the next of SOLVERS;
\* solve returns only when no finder yields a step.  (A turn of the loop
\* reports and applies all steps of its finder before the next turn.)
C21_FindersRunInPriorityOrder ==
    /\ solving.pc = "loop"
          => /\ NothingBelow(solving.cls, solving.solution)
             /\ solving.last.count > 0 => solving.cls = 1
             /\ (solving.turns > 0 /\ solving.last.count = 0)
                   => /\ solving.cls > 1
                      /\ SOLVERS[solving.cls - 1].cls = solving.last.cls
    /\ solving.pc = "done"
          => /\ solving.last.count = 0
             /\ NothingBelow(Len(SOLVERS) + 1, solving.solution)

\* C21 witness: solve is about to run a finder beyond HiddenSingle, and the
\* run has already gone back to the first finder after a step
C21_Witness ==
    /\ solving.pc = "loop"
    /\ solving.cls > 3
    /\ solving.reported
    /\ solving.last.count = 0


\* C22: during solve, CalculateCandidates is a one-shot initializer: every
\* CalculateCandidates step is reported before the first step of any other
\* class (every other class is rated above 0, so the score is still 0), and
\* only the first turn of the loop yields CalculateCandidates steps.
C22_CalculateCandidatesIsOneShot ==
    (solving.last.cls = "CalculateCandidates" /\ solving.last.count > 0)
        => /\ solving.score = 0
           /\ solving.turns = 1


\* C23: in the backtracker, when a candidate tried for the chosen field has
\* failed, the field is 0 again and the candidates of the field and of its
\* surrounding fields are what they were before the candidate was tried (so
\* the whole working grid is); and after a search that found nothing the
\* working grid has the numbers and candidates it had after init_candidates.
C23_BacktrackRestores ==
    /\ (out.op = "candidate" /\ ~out.flag)
          => /\ out.after.num[out.field] = 0
             /\ \A ij \in SavedFields(out.before, out.field) :
                   out.after.cand[ij] = out.before.cand[ij]
             /\ out.after = out.before
    /\ (out.op = "do_bruteforce" /\ ~out.flag) => out.after = out.before

\* C23 witness: a candidate has failed below the first level of the search,
\* after it was removed from a surrounding field and the search went on
\* with a further empty field
C23_Witness ==
    /\ out.op = "candidate" /\ ~out.flag
    /\ Len(empty(out.before)) < Len(empty(sudoku))
    /\ Len(empty(out.grids[1])) > 0
    /\ \E ij \in SavedFields(out.before, out.field) \ {out.field} :
          out.grids[1].cand[ij] # out.before.cand[ij]


\* the rows still available in the matrix X
RowsIn(X) == UNION {X[j] : j \in DOMAIN X}

\* C24: for every matrix X the DLX search reaches and every row r still in
\* X, select(r) followed by deselect(r) gives back X: the same columns, and
\* the same set of rows for each column.  So when the search below a row is
\* over and the row is deselected X is what it was before the row was
\* selected, and when solve has tried all rows of its column X is what it was
\* at entry.
C24_DeselectUndoesSelect ==
    /\ out.op \in {"do_dlx", "select"}
          => /\ \A r \in RowsIn(out.X) :
                   LET sel == select(sudoku, out.X, r)
                       des == deselect(sudoku, sel.X, r, sel.cols)
                   IN  /\ ~sel.keyerror /\ ~des.keyerror
                       /\ DOMAIN des.X = DOMAIN out.X
                       /\ \A j \in DOMAIN out.X : des.X[j] = out.X[j]
                       /\ des.cols = <<>>
             /\ dlx_solve(sudoku, out.X, {}).X = out.X
    /\ out.op = "select" => (~out.flag /\ out.after = out.before)

\* C24 witness: below the first level of the search a row was selected that
\* took rows out of columns that stay in X, and deselected again
C24_Witness ==
    /\ out.op = "select"
    /\ out.after = out.before
    /\ Cardinality(DOMAIN out.before) < Cardinality(DOMAIN ExactCoverOf[<<2, 2>>])
           - 4 * Len(filled(sudoku))
    /\ Side(sudoku) = 4
    /\ \E j \in DOMAIN out.X : out.X[j] # out.before[j]


\* C25: the read-only routines leave the grid they are given untouched:
\* after find of any class of SOLVERS run to its end, and after solve,
\* bruteforce, dlx, is_unique, rate and score, the object of the caller has
\* the numbers and candidates it had (and is made of the same lists, with
\* the same contents).
C25_ReadOnlyLeavesInputUntouched ==
    out.op \in {"find", "bruteforce", "dlx", "is_unique", "solve", "rate", "score"}
        => LET given == Sudoku_decode(sudoku)
           IN  /\ View(heap, 1) = sudoku
               /\ heap.grids[1] = given.grids[1]
               /\ SubSeq(heap.lists, 1, Len(given.lists)) = given.lists

\* C25 witness: solve has worked on a copy that now differs from the grid of
\* the caller in numbers and candidates, and that grid had candidates set
C25_Witness ==
    /\ out.op = "solve"
    /\ Len(heap.grids) = 2
    /\ \E rc \in Cells(sudoku) : sudoku.cand[rc] # {}
    /\ \E rc \in Cells(sudoku) : View(heap, 2).num[rc] # sudoku.num[rc]
    /\ \E rc \in Cells(sudoku) : View(heap, 2).cand[rc] # sudoku.cand[rc]


\* C26: every grid handed out by the stream of bruteforce or of dlx is an
\* independent copy: taking the next solution, or finding the stream at its
\* end, never changes the numbers of a grid handed out before; so of a grid
\* with two or more completions two solutions can be taken from one stream,
\* and they are and stay different.
C26_YieldedGridsAreIndependent ==
    out.op \in {"bruteforce_stream", "dlx_stream"}
        => /\ \A i \in DOMAIN out.taken :
                 View(heap, out.taken[i]).num = out.seen[i].num
           /\ \A i \in DOMAIN out.taken : \A j \in DOMAIN out.taken :
                 i # j => View(heap, out.taken[i]).num # View(heap, out.taken[j]).num
           /\ (out.flag /\ Cardinality(Completions(sudoku)) >= 2)
                 => Len(out.taken) >= 2


\* the rows, columns and boxes of a grid, each as its set of cells
HouseSets(s) ==
    {{rc \in Cells(s) : rc[1] = i} : i \in indices(s)}
    \cup {{rc \in Cells(s) : rc[2] = i} : i \in indices(s)}
    \cup {{rc \in Cells(s) : rc[1] \div s.height = b[1] /\ rc[2] \div s.width = b[2]} :
             b \in (0..(s.width - 1)) \X (0..(s.height - 1))}

\* the union of the candidates of the cells of S
CandidateUnion(s, S) == UNION {s.cand[rc] : rc \in S}

\* the other cells of the house H that have a candidate of the union of S
OthersHit(s, S, H) == {rc \in H \ S : s.cand[rc] \cap CandidateUnion(s, S) # {}}

\* S is a naked n-tuple of the house H with something to remove
NakedIn(s, n, S, H) ==
    /\ S \subseteq H
    /\ Cardinality(S) = n
    /\ \A rc \in S : 2 <= Cardinality(s.cand[rc]) /\ Cardinality(s.cand[rc]) <= n
    /\ Cardinality(CandidateUnion(s, S)) <= n
    /\ OthersHit(s, S, H) # {}

\* what the finder yielded is what the houses of Hs hold as naked n-tuples
NakedTuplesOf(Hs) ==
    LET s == sudoku
        n == out.n
    IN  /\ \A H \in Hs : \A S \in SUBSET H :
              NakedIn(s, n, S, H) => \E k \in DOMAIN out.steps : out.steps[k].clues = S
        /\ \A k \in DOMAIN out.steps :
              /\ out.steps[k].values = CandidateUnion(s, out.steps[k].clues)
              /\ \E H \in Hs :
                    /\ NakedIn(s, n, out.steps[k].clues, H)
                    /\ out.steps[k].affected = OthersHit(s, out.steps[k].clues, H)
        /\ \A k \in DOMAIN out.steps : \A j \in DOMAIN out.steps :
              out.steps[k].clues = out.steps[j].clues => k = j

\* C27 as stated: for n in 2..5 the naked n-tuple finder yields a step with
\* clues S exactly when S is a set of n cells of one row, column or box, each
\* with between 2 and n candidates, whose candidates are at most n digits in
\* all and at least one other cell of that house has one of them; the values
\* of the step are those digits, its affected cells are those other cells,
\* and no two steps have the same clues.
C27_NakedTupleInAnyHouse ==
    out.op = "find_naked" => NakedTuplesOf(HouseSets(sudoku))

\* C27 amended: the same, for the rows, columns and boxes that hold at least
\* one empty cell.
C27_NakedTupleInHouseWithEmptyCell ==
    out.op = "find_naked"
        => NakedTuplesOf({H \in HouseSets(sudoku) : \E rc \in H : sudoku.num[rc] = 0})


\* a naked quint has been found
C27_Witness ==
    /\ out.op = "find_naked"
    /\ out.n = 5
    /\ Len(out.steps) > 0


\* the tables that fill the cells of todo in every way that puts no number
\* next to itself in a row, column or box
RECURSIVE FilledIn(_, _, _)
FilledIn(s, tables, todo) ==
    IF todo = {} THEN tables
    ELSE LET rc == CHOOSE x \in todo : \A y \in todo : x[1] < y[1] \/ (x[1] = y[1] /\ x[2] <= y[2])
             Free(t) == {v \in numbers(s) :
                            \A ij \in Cells(s) : SameHouse(s, rc, ij) => t[ij] # v}
         IN  FilledIn(s, UNION {{[t EXCEPT ![rc] = v] : v \in Free(t)} : t \in tables},
                      todo \ {rc})

\* the conflict-free completions of a grid of any size
CompletionsOf(s) ==
    IF HasConflict(s) THEN {}
    ELSE FilledIn(s, {s.num}, {rc \in Cells(s) : s.num[rc] = 0})

\* C28: when solve is called with a grid that has exactly one completion,
\* every state of the run keeps that completion: a filled cell of the working
\* grid holds the completion's number, and an empty cell with candidates has
\* the completion's number among them.
C28_SolveKeepsTheSolution ==
    solving.pc \in {"loop", "done"}
        => LET completions == CompletionsOf(sudoku)
           IN  Cardinality(completions) = 1
                  => \A t \in completions : \A rc \in Cells(sudoku) :
                        /\ solving.solution.num[rc] # 0 => solving.solution.num[rc] = t[rc]
                        /\ (solving.solution.num[rc] = 0 /\ solving.solution.cand[rc] # {})
                              => t[rc] \in solving.solution.cand[rc]
\* solve has removed candidates with an X-wing or with a hidden pair or
\* triple from a grid that has exactly one completion
C28_Witness ==
    /\ solving.pc = "loop"
    /\ solving.last.cls \in {"XWing", "HiddenPair", "HiddenTriple"}
    /\ solving.last.count > 0
    /\ Cardinality(CompletionsOf(sudoku)) = 1


\* C29: bruteforce(g) and dlx(g) never yield the same completed grid twice,
\* and each yields as many grids as g has completions (exactly one grid for
\* a grid with one completion).
C29_OneGridPerCompletion ==
    out.op \in {"bruteforce", "dlx"}
        => /\ \A i \in DOMAIN out.grids : \A j \in DOMAIN out.grids :
                 out.grids[i].num = out.grids[j].num => i = j
           /\ Len(out.grids) = Cardinality(Completions(sudoku))


\* C30: solve.is_unique (the brute-force solution found with ascending
\* candidates compared with the one found with reversed candidates) returns
\* the same boolean as analyze.is_unique (true iff dlx has exactly one
\* solution), on every grid.
C30_UniquenessChecksAgree ==
    out.op = "both_is_unique" => out.flag = out.analyze


=============================================================================
